---- MODULE Spec2Model ----
(***************************************************************************)
(* A model of power-clipper: the directory walker with its layered ignore  *)
(* rules, the text/binary classifier, the path tree builder and renderer,  *)
(* and the output composer, as driven by the CLI (run) and by the editor   *)
(* command (processSelections).                                            *)
(*                                                                         *)
(* Conventions.  A filesystem path is the sequence of its segments         *)
(* (<<"ws","proj","a.py">> is /ws/proj/a.py).  A text (a template, the     *)
(* output, a rendered tree) is a sequence of atoms; an atom is a string    *)
(* that is never split further.  A "path string" handed to the tree        *)
(* builder is a sequence of atoms that are names or separators.            *)
(***************************************************************************)
EXTENDS Integers, Sequences, FiniteSets, TLC

VARIABLES
    host,            \* "cli" (run) or "ext" (processSelections)
    cwd,             \* process.cwd() / the workspace folder
    hasIgnoreFile,   \* whether <cwd>/.gitignore exists
    faulty,          \* the paths on which statSync / readFileSync throw
    unlistable,      \* the directories on which readdirSync throws
    unreadable,      \* the files on which readFileSync throws and statSync does not
    rootMarker,      \* whether the filesystem root itself holds .git
    secondFolder,    \* a second folder of a multi-root workspace, or <<>>
    rewritten,       \* the files whose bytes were replaced since the start
    gitignoreLines,  \* the patterns written in <cwd>/.gitignore
    excludes,        \* --exclude / powerClipper.alwaysExclude
    includes,        \* --include / powerClipper.alwaysInclude
    useGitIgnore,    \* !--no-gitignore / powerClipper.useGitIgnore
    modeArg,         \* the value given to --mode ("" when absent)
    mode,            \* "content" | "tree" | "full"
    structureFormat, \* "repo" | "relative" | "absolute"
    fileTemplate,    \* --file-template / powerClipper.fileTemplate
    invocation,      \* which invocation of the process this is (from 1)
    cancelAfter,     \* <<n>>: Cancel is pressed once n files were added; <<>>: never
    ignoreHelpers,   \* Map<string, GitIgnoreHelper>, in insertion order
    loads,           \* the roots whose ignore file loadGitIgnore has read
    pc,              \* "loop" while roots are processed, then "done"
    budget,          \* how many more roots the invocation is given
    uris,            \* the roots handed to the loop so far, in order
    trail,           \* per root: what the loop iteration did with it
    processedFiles,  \* FileProcessingResult[]
    processedPaths,  \* string[] (tree-only mode)
    processedAbsPaths, \* Set<string> of processSelections
    output,          \* the composed text
    mimeCache,       \* BinaryDetector.mimeCache (static, in insertion order)
    pathStrings,     \* tree builder input (sequence of path strings)
    tree,            \* buildFileTree(pathStrings)
    treeString,      \* generateTreeString(tree)
    sample,          \* the byte sample given to the binary heuristic
    isBinary         \* containsBinaryContent(sample)

vars == <<host, cwd, hasIgnoreFile, faulty, unlistable, unreadable, rootMarker, secondFolder, rewritten,
          gitignoreLines, excludes, includes, useGitIgnore, modeArg, mode,
          structureFormat, fileTemplate, invocation, cancelAfter, ignoreHelpers,
          loads, pc, budget, uris, trail,
          processedFiles, processedPaths, processedAbsPaths, output,
          mimeCache, pathStrings, tree, treeString, sample, isBinary>>

pipelineVars == <<host, cwd, hasIgnoreFile, faulty, gitignoreLines, excludes, includes,
                  useGitIgnore, mode, structureFormat, pc, budget, uris, trail,
                  processedFiles, processedPaths, processedAbsPaths, output,
                  mimeCache>>
treeVars == <<pathStrings, tree, treeString>>
\* The environment and the configuration, which no step of an invocation
\* changes, and the engines of the ignore files.
envVars == <<unlistable, unreadable, rootMarker, secondFolder, rewritten, modeArg,
            fileTemplate, invocation, cancelAfter>>
helperVars == <<ignoreHelpers, loads>>
binaryVars == <<sample, isBinary>>

(***************************************************************************)
(* Sequences                                                               *)
(***************************************************************************)
Last(s) == s[Len(s)]
Front(s) == SubSeq(s, 1, Len(s) - 1)
Range(s) == {s[i] : i \in 1..Len(s)}
IsPrefix(p, s) == Len(p) <= Len(s) /\ SubSeq(s, 1, Len(p)) = p

RECURSIVE Flatten(_)
Flatten(ss) == IF ss = <<>> THEN <<>> ELSE Head(ss) \o Flatten(Tail(ss))

(***************************************************************************)
(* node's path module, on segment sequences                                *)
(***************************************************************************)
RECURSIVE CommonLen(_, _)
CommonLen(a, b) ==
    IF a = <<>> \/ b = <<>> \/ Head(a) # Head(b) THEN 0
    ELSE 1 + CommonLen(Tail(a), Tail(b))

\* path.relative(from, to): one ".." per segment of `from` below the common
\* ancestor, then the rest of `to`; the empty sequence is the empty string.
pathRelative(from, to) ==
    LET c == CommonLen(from, to)
    IN  [i \in 1..(Len(from) - c) |-> ".."] \o SubSeq(to, c + 1, Len(to))

pathBasename(p) == IF p = <<>> THEN "" ELSE Last(p)
pathDirname(p) == IF p = <<>> THEN <<>> ELSE Front(p)
pathJoin(a, b) == a \o b

\* path.extname of the names of the model (a leading dot alone starts no
\* extension: extname(".env") is "").
extname(name) ==
    CASE name \in {"a.py"} -> ".py"
      [] name \in {"c.png"} -> ".png"
      [] name \in {"x.ts", "y.ts", "k.ts", "big.ts", "lim.ts", "t.ts"} -> ".ts"
      [] name \in {"m.js"} -> ".js"
      [] name \in {"o.txt"} -> ".txt"
      [] OTHER -> ""

(***************************************************************************)
(* The `ignore` package (gitignore pattern matching).  A pattern is        *)
(*   PName(n)   the text  n      a file or directory named n, any depth     *)
(*   PDir(n)    the text  n/     a directory named n, any depth             *)
(*   PPath(s)   the text  a/b    the path a/b, anchored at the root         *)
(*   PDeep(n)   the text  **/n   a file or directory named n, any depth     *)
(*   PExt(e)    the text  *e     a name ending in e (".png"), any depth     *)
(* (kind, name, segs) with the unused field empty.  Negated rules are not  *)
(* modelled.                                                               *)
(***************************************************************************)
PName(n) == [kind |-> "name", name |-> n, segs |-> <<>>]
PDir(n) == [kind |-> "dir", name |-> n, segs |-> <<>>]
PPath(s) == [kind |-> "path", name |-> "", segs |-> s]
PDeep(n) == [kind |-> "deep", name |-> n, segs |-> <<>>]
PExt(e) == [kind |-> "ext", name |-> e, segs |-> <<>>]

\* One rule against one path; asDir: the tested path ends with a slash.
Matches(pat, p, asDir) ==
    CASE pat.kind = "name" -> Last(p) = pat.name
      [] pat.kind = "dir" -> Last(p) = pat.name /\ asDir
      [] pat.kind = "path" -> p = pat.segs
      [] pat.kind = "deep" -> Last(p) = pat.name
      [] pat.kind = "ext" -> extname(Last(p)) = pat.name

\* checkPath: ignores() throws on a path that is empty or not relative.
checkPathThrows(rel) == rel = <<>> \/ Head(rel) = ".."

\* Ignore.ignores(rel), for a valid path: every parent directory is tested
\* first, with a trailing slash; the path itself is tested as it was given
\* (the callers never append a slash).
ignores(patterns, rel) ==
    \E k \in 1..Len(rel) :
        \E pat \in patterns : Matches(pat, SubSeq(rel, 1, k), k < Len(rel))

(***************************************************************************)
(* The filesystem.  /ws is a repository (it holds .git); the ignore file   *)
(* lies in the engine's root, cwd, when hasIgnoreFile.  /out is no         *)
(* repository; /out/rep is one and holds another, /out/rep/in.  The        *)
(* filesystem root holds a .git file when rootMarker.                      *)
(*                                                                         *)
(*   /ws/.DS_Store  /ws/.env  /ws/.git/HEAD  /ws/README                    *)
(*   /ws/node_modules/m.js     /ws/proj/a.py  /ws/proj/b/c.png             *)
(*   /ws/src/x.ts   /ws/src/y.ts                                           *)
(*   /out/big.ts    /out/lim.ts    /out/o.txt                              *)
(*   /out/rep/.git/ /out/rep/in/.git/   /out/rep/in/k.ts                   *)
(*   /tpl/{{content}}/t.ts     (a directory named like a template token)   *)
(***************************************************************************)
WS == <<"ws">>
PROJ == <<"ws", "proj">>

Listing(d) ==
    CASE d = <<>> -> <<".git", "out", "tpl", "ws">>
      [] d = <<"out">> -> <<"big.ts", "lim.ts", "o.txt", "rep">>
      [] d = <<"out", "rep">> -> <<".git", "in">>
      [] d = <<"out", "rep", ".git">> -> <<>>
      [] d = <<"out", "rep", "in">> -> <<".git", "k.ts">>
      [] d = <<"out", "rep", "in", ".git">> -> <<>>
      [] d = <<"tpl">> -> <<"{{content}}">>
      [] d = <<"tpl", "{{content}}">> -> <<"t.ts">>
      [] d = WS -> <<".DS_Store", ".env", ".git", ".gitignore", "README",
                     "node_modules", "proj", "src">>
      [] d = <<"ws", ".git">> -> <<"HEAD">>
      [] d = <<"ws", "node_modules">> -> <<"m.js">>
      [] d = PROJ -> <<".gitignore", "a.py", "b">>
      [] d = <<"ws", "proj", "b">> -> <<"c.png">>
      [] d = <<"ws", "src">> -> <<"x.ts", "y.ts">>

AllDirs == {<<>>, <<"out">>, WS, <<"ws", ".git">>, <<"ws", "node_modules">>,
            PROJ, <<"ws", "proj", "b">>, <<"ws", "src">>,
            <<"out", "rep">>, <<"out", "rep", ".git">>, <<"out", "rep", "in">>,
            <<"out", "rep", "in", ".git">>, <<"tpl">>, <<"tpl", "{{content}}">>}

\* fs.existsSync(<d>/.gitignore)
ignoreFileIn(d) == hasIgnoreFile /\ d = cwd

\* fs.readdirSync(d), for a directory that can be listed
readdirSync(d) ==
    SelectSeq(Listing(d), LAMBDA n : /\ n = ".gitignore" => ignoreFileIn(d)
                                     /\ (n = ".git" /\ d = <<>>) => rootMarker)

isDirectory(p) == p \in AllDirs
isFile(p) ==
    /\ p # <<>>
    /\ Front(p) \in AllDirs
    /\ p \notin AllDirs
    /\ Last(p) \in Range(readdirSync(Front(p)))
existsSync(p) == isDirectory(p) \/ isFile(p)

AllFiles ==
    UNION {{pathJoin(d, <<n>>) : n \in Range(readdirSync(d))} : d \in AllDirs}
        \ AllDirs

\* Every regular file below directory d, whatever the rules say.
FilesUnder(d) == {f \in AllFiles : IsPrefix(d, f)}

(***************************************************************************)
(* GitIgnoreHelper                                                         *)
(***************************************************************************)
NoHelper == [workspaceRoot |-> <<"?">>, ig |-> {}, none |-> TRUE]

\* constructor + loadGitIgnore: the ignore file's rules when it exists and
\* can be read, then the two built-in rules.
GitIgnoreHelper(workspaceRoot) ==
    [workspaceRoot |-> workspaceRoot,
     ig |-> (IF ignoreFileIn(workspaceRoot)
                /\ pathJoin(workspaceRoot, <<".gitignore">>) \notin faulty
             THEN gitignoreLines ELSE {})
            \cup {PName(".git"), PName(".DS_Store")},
     none |-> FALSE]

\* A helper that matches the rules against the base name alone.
shouldIgnoreBaseName(helper, filePath) ==
    ignores(helper.ig, <<pathBasename(filePath)>>)

shouldIgnore(helper, filePath) ==
    LET relativePath == pathRelative(helper.workspaceRoot, filePath)
    IN  IF relativePath # <<>> /\ Head(relativePath) = ".." THEN FALSE
        ELSE IF relativePath = <<>> THEN FALSE
        ELSE ignores(helper.ig, relativePath)

(***************************************************************************)
(* getAllFilesRecursively: the files kept below directoryPath, in the      *)
(* order they are met, and the onSkip notifications in the order they are  *)
(* made.  An exception anywhere in the loop (readdirSync, ignores() on an  *)
(* invalid path, statSync) ends this directory's loop; the function then   *)
(* returns the files gathered so far.                                      *)
(***************************************************************************)
NoWalk == [files |-> <<>>, skipped |-> <<>>]
WalkConcat(a, b) == [files |-> a.files \o b.files, skipped |-> a.skipped \o b.skipped]

RECURSIVE getAllFilesRecursively(_, _, _, _)
RECURSIVE WalkItems(_, _, _, _, _, _)

\* The loop body from item i on.
WalkItems(directoryPath, items, i, ignoreHelper, excludePatterns, includePatterns) ==
    IF i > Len(items) THEN NoWalk
    ELSE
    LET fullPath == pathJoin(directoryPath, <<items[i]>>)
        rootForMatching ==
            IF ~ignoreHelper.none THEN ignoreHelper.workspaceRoot ELSE directoryPath
        relativePath == pathRelative(rootForMatching, fullPath)
        rest == WalkItems(directoryPath, items, i + 1, ignoreHelper,
                          excludePatterns, includePatterns)
    IN  IF checkPathThrows(relativePath) THEN NoWalk
        ELSE
        LET isForcedInclude == ignores(includePatterns, relativePath)
        IN  IF ~isForcedInclude /\ ~ignoreHelper.none
               /\ shouldIgnore(ignoreHelper, fullPath)
            THEN WalkConcat([files |-> <<>>,
                             skipped |-> <<[path |-> fullPath, reason |-> "gitignore"]>>],
                            rest)
            ELSE IF ~isForcedInclude /\ ignores(excludePatterns, relativePath)
            THEN WalkConcat([files |-> <<>>,
                             skipped |-> <<[path |-> fullPath, reason |-> "exclude_pattern"]>>],
                            rest)
            ELSE IF fullPath \in faulty THEN NoWalk
            ELSE IF isDirectory(fullPath)
                 THEN WalkConcat(getAllFilesRecursively(fullPath, ignoreHelper,
                                     excludePatterns, includePatterns), rest)
            ELSE IF isFile(fullPath)
                 THEN WalkConcat([files |-> <<fullPath>>, skipped |-> <<>>], rest)
            ELSE rest

getAllFilesRecursively(directoryPath, ignoreHelper, excludePatterns, includePatterns) ==
    IF directoryPath \in unlistable THEN NoWalk
    ELSE WalkItems(directoryPath, readdirSync(directoryPath), 1, ignoreHelper,
                   excludePatterns, includePatterns)

(***************************************************************************)
(* BinaryDetector                                                          *)
(***************************************************************************)
BUFFER_SIZE == 8192
\* NULL_PERCENTAGE_THRESHOLD and CONTROL_CHAR_THRESHOLD are 0.1: a count c of
\* n bytes is over the threshold when c / n > 1 / 10, that is c * 10 > n * 1
\* (the quotient of two integers below 2^53 rounds to the double 0.1 only
\* when it is exactly one tenth).
THRESHOLD_NUM == 1
THRESHOLD_DEN == 10
ALLOWED_CONTROL_CHARS == {9, 10, 13, 12}

\* The threshold taken inclusively.
overThresholdInclusive(count, totalBytes) ==
    count * THRESHOLD_DEN >= totalBytes * THRESHOLD_NUM

overThreshold(count, totalBytes) == count * THRESHOLD_DEN > totalBytes * THRESHOLD_NUM

\* (byte & 0xF8) === 0xF8: the top five bits of the byte are all set.
topFiveBitsSet(byte) == byte \div 8 = 31

\* The scan of containsBinaryContent from byte i on, with the counts so far.
RECURSIVE scanBuffer(_, _, _, _)
scanBuffer(buffer, i, nullCount, controlCount) ==
    IF i > Len(buffer) THEN FALSE
    ELSE
    LET byte == buffer[i]
        nulls == IF byte = 0 THEN nullCount + 1 ELSE nullCount
        isControl == byte < 32 /\ byte \notin ALLOWED_CONTROL_CHARS
        controls == IF isControl THEN controlCount + 1 ELSE controlCount
    IN  IF byte = 0 /\ overThreshold(nulls, Len(buffer)) THEN TRUE
        ELSE IF isControl /\ overThreshold(controls, Len(buffer)) THEN TRUE
        ELSE IF topFiveBitsSet(byte) THEN TRUE
        ELSE scanBuffer(buffer, i + 1, nulls, controls)

containsBinaryContent(buffer) == scanBuffer(buffer, 1, 0, 0)

(***************************************************************************)
(* What the files hold                                                     *)
(***************************************************************************)
MAX_FILE_SIZE == 3145728

\* The size test with the limit itself rejected.
exceedsSizeLimitInclusive(size) == size >= MAX_FILE_SIZE

\* fileStats.size > MAX_FILE_SIZE
exceedsSizeLimit(size) == size > MAX_FILE_SIZE

\* fs.statSync(p).size: one file is one byte over the limit of processFile,
\* one is exactly at it, the others are small.
fileSize(p) ==
    CASE Last(p) = "big.ts" -> MAX_FILE_SIZE + 1
      [] Last(p) = "lim.ts" -> MAX_FILE_SIZE
      [] OTHER -> 50

\* The bytes of the file (every file of the model is shorter than the
\* detector's buffer).
fileBytes(p) ==
    CASE p \in rewritten -> <<35, 32, 104, 105, 10>>
      [] Last(p) = "c.png" -> <<137, 80, 78, 71, 13, 10, 26, 10>>
      [] Last(p) = ".DS_Store" -> <<0, 0, 0, 1, 66, 117, 100, 49>>
      [] OTHER -> <<35, 32, 104, 105, 10>>

\* fs.readFileSync(p, "utf8"), as a text; one file holds dollar sequences.
fileContent(p) ==
    IF Last(p) = "k.ts" THEN <<"<<", "k.ts", ">>", "$$", "$&", "$'">>
    ELSE <<"<<", Last(p), ">>">>

\* Map<string, boolean> in insertion order: a sequence of [key, value].
cacheHas(cache, key) == \E i \in 1..Len(cache) : cache[i].key = key
cacheGet(cache, key) == cache[CHOOSE i \in 1..Len(cache) : cache[i].key = key].value
MAX_CACHE == 1000
EVICT_COUNT == 200

\* An update that already evicts when the size reaches the ceiling.
updateCacheAtCeiling(cache, filePath, result) ==
    LET set == Append(cache, [key |-> filePath, value |-> result])
    IN  IF Len(set) >= MAX_CACHE
        THEN SubSeq(set, EVICT_COUNT + 1, Len(set))
        ELSE set

\* BinaryDetector.updateCache
updateCache(cache, filePath, result) ==
    LET set == IF cacheHas(cache, filePath)
               THEN [i \in 1..Len(cache) |->
                        IF cache[i].key = filePath
                        THEN [key |-> filePath, value |-> result] ELSE cache[i]]
               ELSE Append(cache, [key |-> filePath, value |-> result])
    IN  IF Len(set) > MAX_CACHE
        THEN SubSeq(set, EVICT_COUNT + 1, Len(set))
        ELSE set

\* BinaryDetector.isFileBinary: [result, cache]
isFileBinary(cache, filePath) ==
    IF cacheHas(cache, filePath)
    THEN [result |-> cacheGet(cache, filePath), cache |-> cache]
    ELSE IF filePath \in faulty \/ filePath \in unreadable
    THEN [result |-> TRUE, cache |-> cache]
    ELSE LET bytes == fileBytes(filePath)
             slice == SubSeq(bytes, 1, IF Len(bytes) < BUFFER_SIZE
                                       THEN Len(bytes) ELSE BUFFER_SIZE)
             result == containsBinaryContent(slice)
         IN  [result |-> result, cache |-> updateCache(cache, filePath, result)]

(***************************************************************************)
(* languageExtensions.ts                                                   *)
(***************************************************************************)
NULL == "<null>"

\* getLanguageFromExtension, for the extensions of the model
getLanguageFromExtension(extension) ==
    CASE extension = ".ts" -> "typescript"
      [] extension = ".js" -> "javascript"
      [] extension = ".py" -> "python"
      [] extension = ".txt" -> "plaintext"
      [] OTHER -> NULL

\* mime.lookup(filePath) of the mime-types package: the type of the base
\* name's extension; a base name without an extension has no type.  (The
\* other extensions of the model are settled by the extension table before
\* the lookup is made.)
mimeLookup(filePath) ==
    CASE extname(Last(filePath)) = ".png" -> "image/png"
      [] extname(Last(filePath)) = ".txt" -> "text/plain"
      [] OTHER -> NULL

\* mimeType.startsWith('text/') || isTextMimeType(mimeType)
isTextual(mimeType) == mimeType \in {"text/plain"}

\* EXCLUDED_PATTERNS tested on the whole path
isExcludedFile(filePath) ==
    \E i \in 1..Len(filePath) : filePath[i] \in {".DS_Store", "Thumbs.db"}

\* extension.startsWith('.') ? extension.slice(1) : extension
sliceDot(extension) ==
    CASE extension = ".png" -> "png"
      [] extension = ".ts" -> "ts"
      [] extension = ".js" -> "js"
      [] extension = ".py" -> "py"
      [] extension = ".txt" -> "txt"
      [] OTHER -> extension

\* getFileFormat: [format, cache]; format is NULL, or a tag (which is the
\* empty string for a name without an extension).
getFileFormat(cache, filePath) ==
    LET extension == extname(Last(filePath))
        knownLanguage == getLanguageFromExtension(extension)
        mimeType == mimeLookup(filePath)
        probe == isFileBinary(cache, filePath)
    IN  IF isExcludedFile(filePath) THEN [format |-> NULL, cache |-> cache]
        ELSE IF knownLanguage # NULL THEN [format |-> knownLanguage, cache |-> cache]
        ELSE IF mimeType # NULL /\ isTextual(mimeType)
             THEN [format |-> sliceDot(extension), cache |-> cache]
        ELSE IF ~probe.result
             THEN [format |-> sliceDot(extension), cache |-> probe.cache]
        ELSE [format |-> NULL, cache |-> probe.cache]

(***************************************************************************)
(* core: path details and processFile                                      *)
(***************************************************************************)
\* findGitRoot: upward from startPath, the filesystem root itself excluded;
\* the empty path stands for null.
\* The search that keeps the marker directory nearest to the root.
RECURSIVE findGitRootOutermost(_)
findGitRootOutermost(current) ==
    IF current = <<>> THEN <<>>
    ELSE LET up == findGitRootOutermost(pathDirname(current))
         IN  IF up # <<>> THEN up
             ELSE IF existsSync(pathJoin(current, <<".git">>)) THEN current
             ELSE <<>>

RECURSIVE findGitRoot(_)
findGitRoot(current) ==
    IF current = <<>> THEN <<>>
    ELSE IF existsSync(pathJoin(current, <<".git">>)) THEN current
    ELSE findGitRoot(pathDirname(current))

getPathDetails(filePath, basePath) ==
    LET relativePath == pathRelative(basePath, filePath)
        gitRoot == findGitRoot(pathDirname(filePath))
    IN  [fileName |-> pathBasename(filePath),
         relativePath |-> relativePath,
         repoPath |-> IF gitRoot # <<>>
                      THEN pathJoin(<<pathBasename(gitRoot)>>,
                                    pathRelative(gitRoot, filePath))
                      ELSE relativePath,
         absolutePath |-> filePath]

\* !format of JavaScript: null and the empty string are both falsy.
falsy(format) == format = NULL \/ format = ""

\* processFile: [ok, result, cache]; ok is false when the function returns
\* null, and result is then of no account.
NoResult ==
    [fileName |-> "", relativePath |-> <<>>, repoPath |-> <<>>,
     absolutePath |-> <<>>, content |-> <<>>, language |-> ""]

processFile(cache, filePath, basePath) ==
    IF filePath \in faulty \/ ~existsSync(filePath)
    THEN [ok |-> FALSE, result |-> NoResult, cache |-> cache]
    ELSE IF exceedsSizeLimit(fileSize(filePath))
    THEN [ok |-> FALSE, result |-> NoResult, cache |-> cache]
    ELSE LET got == getFileFormat(cache, filePath)
             details == getPathDetails(filePath, basePath)
         IN  IF falsy(got.format) \/ filePath \in unreadable
             THEN [ok |-> FALSE, result |-> NoResult, cache |-> got.cache]
             ELSE [ok |-> TRUE,
                   result |-> [fileName |-> details.fileName,
                               relativePath |-> details.relativePath,
                               repoPath |-> details.repoPath,
                               absolutePath |-> details.absolutePath,
                               content |-> fileContent(filePath),
                               language |-> got.format],
                   cache |-> got.cache]

(***************************************************************************)
(* core: buildFileTree.  The tree is the list of its nodes in creation     *)
(* order, each with its parent's index (0 is the virtual root), so that a  *)
(* node's children array is its children in creation order.                *)
(***************************************************************************)
Separators == {"/", "\\"}

\* p.split(/[/\\]/).filter(Boolean)
splitParts(p) == SelectSeq(p, LAMBDA a : a \notin Separators)

\* path.join of the segments, as a path string
pathString(segs) ==
    Flatten([i \in 1..Len(segs) |-> IF i = 1 THEN <<segs[i]>> ELSE <<"/", segs[i]>>])
absoluteString(segs) == <<"/">> \o pathString(segs)

childrenOf(nodes, parent) ==
    SelectSeq([i \in 1..Len(nodes) |-> i], LAMBDA i : nodes[i].parent = parent)

\* An inner loop that creates a node for every part, without the search
\* among the children.
RECURSIVE insertPartsNoMerge(_, _, _, _)
insertPartsNoMerge(nodes, parts, i, currentNode) ==
    IF i > Len(parts) THEN nodes
    ELSE insertPartsNoMerge(Append(nodes, [name |-> parts[i],
                                           path |-> SubSeq(parts, 1, i),
                                           isDirectory |-> i # Len(parts),
                                           parent |-> currentNode]),
                            parts, i + 1, Len(nodes) + 1)

\* The inner loop of buildFileTree from part i on, below currentNode.
RECURSIVE insertParts(_, _, _, _)
insertParts(nodes, parts, i, currentNode) ==
    IF i > Len(parts) THEN nodes
    ELSE
    LET found == SelectSeq(childrenOf(nodes, currentNode),
                           LAMBDA k : nodes[k].name = parts[i])
    IN  IF found # <<>> THEN insertParts(nodes, parts, i + 1, Head(found))
        ELSE insertParts(Append(nodes, [name |-> parts[i],
                                        path |-> SubSeq(parts, 1, i),
                                        isDirectory |-> i # Len(parts),
                                        parent |-> currentNode]),
                         parts, i + 1, Len(nodes) + 1)

RECURSIVE insertPaths(_, _)
insertPaths(nodes, paths) ==
    IF paths = <<>> THEN nodes
    ELSE insertPaths(insertParts(nodes, splitParts(Head(paths)), 1, 0), Tail(paths))

\* A builder that returns the virtual root whatever its children.
buildFileTreeUncollapsed(paths) ==
    [nodes |-> insertPaths(<<>>, paths), root |-> 0, rootName |-> "."]

\* buildFileTree: the nodes, and which node is returned: the only top-level
\* node, or the virtual root (index 0) renamed ".".
buildFileTree(paths) ==
    LET nodes == insertPaths(<<>>, paths)
        top == childrenOf(nodes, 0)
    IN  IF Len(top) = 1
        THEN [nodes |-> nodes, root |-> top[1], rootName |-> "root"]
        ELSE [nodes |-> nodes, root |-> 0, rootName |-> "."]

nodeName(t, n) == IF n = 0 THEN t.rootName ELSE t.nodes[n].name
nodePath(t, n) == IF n = 0 THEN <<>> ELSE t.nodes[n].path
nodeIsDirectory(t, n) == IF n = 0 THEN TRUE ELSE t.nodes[n].isDirectory
hasChildren(t, n) == childrenOf(t.nodes, n) # <<>>

(***************************************************************************)
(* core: generateTreeString                                                *)
(***************************************************************************)
\* The names of the model in the order of String.prototype.localeCompare
\* (punctuation before letters, letters without regard to case first).
Collation ==
    <<".", "..", ".DS_Store", ".env", ".git", ".gitignore", "{{content}}", "a.py",
      "b", "big.ts", "c.png", "HEAD", "in", "k.ts", "lib", "lim.ts", "m.js",
      "node_modules", "o.txt", "out", "proj", "README", "rep", "src", "t.ts",
      "tpl", "ws", "x.ts", "y.ts">>
collationRank(name) == CHOOSE i \in 1..Len(Collation) : Collation[i] = name
localeCompare(a, b) ==
    IF a = b THEN 0 ELSE IF collationRank(a) < collationRank(b) THEN -1 ELSE 1

\* The comparator of the sort: nodes with children first, then by name.
compareNodes(t, a, b) ==
    IF hasChildren(t, a) /\ ~hasChildren(t, b) THEN -1
    ELSE IF ~hasChildren(t, a) /\ hasChildren(t, b) THEN 1
    ELSE localeCompare(nodeName(t, a), nodeName(t, b))

\* Array.prototype.sort is stable: x goes after the elements it does not
\* precede.
RECURSIVE insertSorted(_, _, _)
insertSorted(t, sorted, x) ==
    IF sorted = <<>> THEN <<x>>
    ELSE IF compareNodes(t, Head(sorted), x) > 0 THEN <<x>> \o sorted
    ELSE <<Head(sorted)>> \o insertSorted(t, Tail(sorted), x)

RECURSIVE sortNodes(_, _)
sortNodes(t, s) ==
    IF s = <<>> THEN <<>> ELSE insertSorted(t, sortNodes(t, Front(s)), Last(s))

\* The children as they were created, without the sort.
unsortedChildren(t, n) == childrenOf(t.nodes, n)

sortedChildren(t, n) == sortNodes(t, childrenOf(t.nodes, n))

\* The box-drawing strings of the renderer, written in ASCII: the corner
\* connector, the tee connector and the vertical-bar prefix.
LAST_CONNECTOR == "+-- "
MID_CONNECTOR == "|-- "
BAR_PREFIX == "|   "

RECURSIVE generateTreeString(_, _, _, _)
generateTreeString(t, n, prefix, isLast) ==
    LET own ==
            IF nodePath(t, n) # <<>>
            THEN prefix \o <<IF isLast THEN LAST_CONNECTOR ELSE MID_CONNECTOR, nodeName(t, n), "\n">>
            ELSE IF nodeName(t, n) # "root" /\ nodeName(t, n) # ""
            THEN <<nodeName(t, n), "/", "\n">>
            ELSE <<>>
        childPrefix ==
            IF nodePath(t, n) = <<>> /\ nodeName(t, n) = "root" THEN prefix
            ELSE prefix \o <<IF isLast THEN "    " ELSE BAR_PREFIX>>
        kids == sortedChildren(t, n)
    IN  own \o Flatten([i \in 1..Len(kids) |->
                          generateTreeString(t, kids[i], childPrefix, i = Len(kids))])

(***************************************************************************)
(* core: formatContent and generateOutput                                  *)
(***************************************************************************)
\* The default templates; the grave accents of the source are written as
\* apostrophes.
DEFAULT_FILE_TEMPLATE ==
    <<"### '", "{{relativePath}}", "'\n\n'''", "{{language}}", "\n",
      "{{content}}", "\n'''\n\n">>
DEFAULT_TREE_TEMPLATE == <<"## File Structure\n'''\n", "{{tree}}", "\n'''\n\n">>

\* The replacement string of String.prototype.replace at the match text[i]:
\* "$$" stands for a dollar sign, "$&" for the matched text and "$'" for the
\* text after the match (the sequence for the text before the match, a
\* dollar sign and a grave accent, is not among the atoms of the model).
expandReplacement(value, text, i) ==
    Flatten([k \in 1..Len(value) |->
                CASE value[k] = "$$" -> <<"$">>
                  [] value[k] = "$&" -> <<text[i]>>
                  [] value[k] = "$'" -> SubSeq(text, i + 1, Len(text))
                  [] OTHER -> <<value[k]>>])

\* text.replace(/token/g, value)
replaceAll(text, token, value) ==
    Flatten([i \in 1..Len(text) |->
                IF text[i] = token THEN expandReplacement(value, text, i)
                ELSE <<text[i]>>])

formatContent(result, template) ==
    LET t1 == replaceAll(template, "{{fileName}}", <<result.fileName>>)
        t2 == replaceAll(t1, "{{relativePath}}", pathString(result.relativePath))
        t3 == replaceAll(t2, "{{repoPath}}", pathString(result.repoPath))
        t4 == replaceAll(t3, "{{absolutePath}}", absoluteString(result.absolutePath))
        t5 == replaceAll(t4, "{{path}}", pathString(result.relativePath))
        t6 == replaceAll(t5, "{{language}}", <<result.language>>)
    IN  replaceAll(t6, "{{content}}", result.content)

\* String.prototype.trim on a rendered tree: the atoms that are white space
\* only are dropped from both ends.
WhiteAtoms == {"\n", "    "}
RECURSIVE trimStart(_)
trimStart(text) ==
    IF text # <<>> /\ Head(text) \in WhiteAtoms THEN trimStart(Tail(text)) ELSE text
RECURSIVE trimEnd(_)
trimEnd(text) ==
    IF text # <<>> /\ Last(text) \in WhiteAtoms THEN trimEnd(Front(text)) ELSE text
trim(text) == trimEnd(trimStart(text))

\* The string that is graphed for one selected path
pathToGraph(p, basePath, format) ==
    LET details == getPathDetails(p, basePath)
    IN  IF format = "absolute" THEN absoluteString(details.absolutePath)
        ELSE IF format = "repo" THEN pathString(details.repoPath)
        ELSE pathString(details.relativePath)

\* Steps 1 to 3 of generateOutput: the tree body before it is trimmed.
treeBody(allSelectedPaths, basePath, format) ==
    LET pathsToGraph == [i \in 1..Len(allSelectedPaths) |->
                            pathToGraph(allSelectedPaths[i], basePath, format)]
        t == buildFileTree(pathsToGraph)
        treeHeader == IF nodeName(t, t.root) # "root" /\ nodePath(t, t.root) # <<>>
                      THEN <<nodeName(t, t.root), "/", "\n">> ELSE <<>>
    IN  treeHeader \o generateTreeString(t, t.root, <<>>, TRUE)

\* Whether generateOutput emits the tree block, given the includeTree flag
\* its callers pass.
emitsTree(includeTree, allSelectedPaths) == includeTree /\ Len(allSelectedPaths) > 0

\* A composer that writes the file blocks before the tree block.
generateOutputFilesFirst(files, allSelectedPaths, basePath, includeContent, includeTree, fileTmpl, treeTmpl, format) ==
    LET treeBlock ==
            IF emitsTree(includeTree, allSelectedPaths)
            THEN replaceAll(treeTmpl, "{{tree}}",
                            trim(treeBody(allSelectedPaths, basePath, format)))
            ELSE <<>>
        fileBlocks ==
            IF includeContent
            THEN Flatten([i \in 1..Len(files) |-> formatContent(files[i], fileTmpl)])
            ELSE <<>>
    IN  fileBlocks \o treeBlock

generateOutput(files, allSelectedPaths, basePath, includeContent, includeTree, fileTmpl, treeTmpl, format) ==
    LET treeBlock ==
            IF emitsTree(includeTree, allSelectedPaths)
            THEN replaceAll(treeTmpl, "{{tree}}",
                            trim(treeBody(allSelectedPaths, basePath, format)))
            ELSE <<>>
        fileBlocks ==
            IF includeContent
            THEN Flatten([i \in 1..Len(files) |-> formatContent(files[i], fileTmpl)])
            ELSE <<>>
    IN  treeBlock \o fileBlocks

(***************************************************************************)
(* The two drivers: run (cli.ts) and processSelections (extension.ts).     *)
(* One action is one iteration of the loop over the roots; Finish is the   *)
(* code after the loop.  The list of roots ends wherever Finish is taken.  *)
(***************************************************************************)
\* Map<string, GitIgnoreHelper> in insertion order: a sequence of
\* [root, helper].
helperHas(helpers, root) == \E i \in 1..Len(helpers) : helpers[i].root = root
helperGet(helpers, root) ==
    helpers[CHOOSE i \in 1..Len(helpers) : helpers[i].root = root].helper

\* No engine: ignore-file handling is off, or the path lies in no workspace.
withoutHelper(helpers, log) == [helper |-> NoHelper, helpers |-> helpers, loads |-> log]

\* A lookup that builds a new engine for the root every time.
obtainHelperAnew(helpers, log, root) ==
    LET built == GitIgnoreHelper(root)
    IN  [helper |-> built,
         helpers |-> Append(SelectSeq(helpers, LAMBDA e : e.root # root),
                            [root |-> root, helper |-> built]),
         loads |-> Append(log, root)]

\* The engine of a root: the one in the map, or a new one, whose
\* constructor runs loadGitIgnore, put into the map.  [helper, helpers,
\* loads], the log of the loadGitIgnore calls included.
obtainHelper(helpers, log, root) ==
    IF helperHas(helpers, root)
    THEN [helper |-> helperGet(helpers, root), helpers |-> helpers, loads |-> log]
    ELSE LET built == GitIgnoreHelper(root)
         IN  [helper |-> built,
              helpers |-> Append(helpers, [root |-> root, helper |-> built]),
              loads |-> Append(log, root)]

MaxRoots == 2

Roots ==
    {WS, PROJ, <<"ws", "src", "x.ts">>, <<"ws", "src", "y.ts">>,
     <<"ws", ".env">>, <<"ws", "README">>, <<"ws", ".DS_Store">>,
     <<"ws", "nope">>, <<"out">>}

needContent == mode # "tree"
needTree == mode # "content"

absolutePaths(files) == [i \in 1..Len(files) |-> files[i].absolutePath]

\* The inner loop of run over filesToProcess.
RECURSIVE collectTarget(_, _)
collectTarget(acc, filesToProcess) ==
    IF filesToProcess = <<>> THEN acc
    ELSE
    LET file == Head(filesToProcess)
        res == processFile(acc.cache, file, cwd)
        next ==
            IF needContent
            THEN IF file \in Range(absolutePaths(acc.files)) THEN acc
                 ELSE [acc EXCEPT !.cache = res.cache,
                                  !.files = IF res.ok THEN Append(@, res.result) ELSE @]
            ELSE IF file \in Range(acc.paths) THEN acc
                 ELSE [acc EXCEPT !.paths = Append(@, file)]
    IN  collectTarget(next, Tail(filesToProcess))

\* One iteration of the loop of run.  An exception of statSync leaves the
\* loop and run: the process exits without an output.  run builds its one
\* engine before the loop; here it is built when the first iteration needs
\* it and kept for the others.
ProcessTarget(targetPath) ==
    /\ host = "cli"
    /\ pc = "loop"
    /\ budget > 0
    /\ LET got == IF useGitIgnore THEN obtainHelper(ignoreHelpers, loads, cwd)
                  ELSE withoutHelper(ignoreHelpers, loads)
           ignoreHelper == got.helper
           walk == IF isDirectory(targetPath)
                   THEN getAllFilesRecursively(targetPath, ignoreHelper, excludes, includes)
                   ELSE [files |-> <<targetPath>>, skipped |-> <<>>]
           acc == collectTarget([files |-> processedFiles, paths |-> processedPaths,
                                 cache |-> mimeCache, seen |-> processedAbsPaths],
                                walk.files)
       IN  /\ ignoreHelpers' = got.helpers
           /\ loads' = got.loads
           /\ IF ~existsSync(targetPath)
              THEN /\ trail' = Append(trail, [root |-> targetPath, outcome |-> "notfound",
                                              files |-> <<>>, skipped |-> <<>>])
                   /\ UNCHANGED <<processedFiles, processedPaths, mimeCache, pc>>
              ELSE IF targetPath \in faulty
              THEN /\ trail' = Append(trail, [root |-> targetPath, outcome |-> "crash",
                                              files |-> <<>>, skipped |-> <<>>])
                   /\ pc' = "crashed"
                   /\ UNCHANGED <<processedFiles, processedPaths, mimeCache>>
              ELSE /\ trail' = Append(trail, [root |-> targetPath,
                                              outcome |-> IF isDirectory(targetPath)
                                                          THEN "walked" ELSE "file",
                                              files |-> walk.files,
                                              skipped |-> walk.skipped])
                   /\ processedFiles' = acc.files
                   /\ processedPaths' = acc.paths
                   /\ mimeCache' = acc.cache
                   /\ pc' = pc
    /\ uris' = Append(uris, targetPath)
    /\ budget' = budget - 1
    /\ UNCHANGED <<host, cwd, hasIgnoreFile, faulty, gitignoreLines, excludes, includes,
                   useGitIgnore, mode, structureFormat, processedAbsPaths, output>>
    /\ UNCHANGED <<treeVars, binaryVars, envVars>>

\* token.isCancellationRequested of the progress notification.  The clock of
\* the request is the number of files addFile has taken so far, so a
\* request may fall in the middle of the walk of a root.
isCancellationRequested(seen) ==
    cancelAfter # <<>> /\ Cardinality(seen) >= cancelAfter[1]

\* A loop that never reads the token.
neverBreaks(requested) == FALSE

\* `if (token.isCancellationRequested) break;`, the first statement of an
\* iteration and the only read of the token.
breaksLoop(requested) == requested

\* vscode.workspace.getWorkspaceFolder(uri)?.uri.fsPath; the empty path
\* stands for undefined.
workspaceRootOf(fsPath) ==
    IF IsPrefix(cwd, fsPath) THEN cwd
    ELSE IF secondFolder # <<>> /\ IsPrefix(secondFolder, fsPath) THEN secondFolder
    ELSE <<>>

\* commonBasePath of processSelections
commonBasePathOf(all) ==
    IF all = <<>> THEN <<>>
    ELSE IF workspaceRootOf(all[1]) # <<>> THEN workspaceRootOf(all[1])
    ELSE pathDirname(all[1])

\* The text of a rule, as a substring of the path string fsPath:
\* String.prototype.includes.  One name lies inside another only as listed.
ProperSubstrings == {<<".git", ".gitignore">>}
nameIncludes(seg, n) == seg = n \/ <<n, seg>> \in ProperSubstrings
TextIncludes(fsPath, pat) ==
    CASE pat.kind = "name" -> \E i \in 1..Len(fsPath) : nameIncludes(fsPath[i], pat.name)
      [] pat.kind = "dir" -> \E i \in 1..(Len(fsPath) - 1) : fsPath[i] = pat.name
      [] pat.kind = "path" ->
            \E i \in 1..Len(fsPath) :
                /\ i + Len(pat.segs) - 1 <= Len(fsPath)
                /\ \A k \in 1..Len(pat.segs) :
                      IF k < Len(pat.segs) THEN fsPath[i + k - 1] = pat.segs[k]
                      ELSE nameIncludes(fsPath[i + k - 1], pat.segs[k])
      [] OTHER -> FALSE

\* An addFile without the set of the paths already taken.
RECURSIVE collectSelectionUnchecked(_, _, _)
collectSelectionUnchecked(acc, children, basePath) ==
    IF children = <<>> THEN acc
    ELSE
    LET filePath == Head(children)
        res == processFile(acc.cache, filePath, basePath)
        next ==
            IF needContent
            THEN [acc EXCEPT !.seen = @ \cup {filePath},
                             !.cache = res.cache,
                             !.files = IF res.ok THEN Append(@, res.result) ELSE @]
            ELSE [acc EXCEPT !.seen = @ \cup {filePath},
                             !.paths = Append(@, filePath)]
    IN  collectSelectionUnchecked(next, Tail(children), basePath)

\* addFile over the children, in order.
RECURSIVE collectSelection(_, _, _)
collectSelection(acc, children, basePath) ==
    IF children = <<>> THEN acc
    ELSE
    LET filePath == Head(children)
        res == processFile(acc.cache, filePath, basePath)
        next ==
            IF filePath \in acc.seen THEN acc
            ELSE IF needContent
            THEN [acc EXCEPT !.seen = @ \cup {filePath},
                             !.cache = res.cache,
                             !.files = IF res.ok THEN Append(@, res.result) ELSE @]
            ELSE [acc EXCEPT !.seen = @ \cup {filePath},
                             !.paths = Append(@, filePath)]
    IN  collectSelection(next, Tail(children), basePath)

\* One iteration of the loop of processSelections.  An exception (ignores()
\* on a path that leaves the matching root, statSync on a missing path)
\* leaves the loop and the command: nothing is copied.
ProcessSelection(fsPath) ==
    /\ host = "ext"
    /\ pc = "loop"
    /\ budget > 0
    /\ ~breaksLoop(isCancellationRequested(processedAbsPaths))
    /\ LET workspaceRoot == workspaceRootOf(fsPath)
           commonBasePath == commonBasePathOf(Append(uris, fsPath))
           rootForMatching == IF workspaceRoot # <<>> THEN workspaceRoot ELSE commonBasePath
           relativePath == pathRelative(rootForMatching, fsPath)
           got == IF useGitIgnore /\ workspaceRoot # <<>>
                  THEN obtainHelper(ignoreHelpers, loads, workspaceRoot)
                  ELSE withoutHelper(ignoreHelpers, loads)
           ignoreHelper == got.helper
           isForcedRoot == \E pat \in includes : TextIncludes(fsPath, pat)
           walk == IF isDirectory(fsPath)
                   THEN getAllFilesRecursively(fsPath, ignoreHelper, excludes, includes)
                   ELSE [files |-> <<fsPath>>, skipped |-> <<>>]
           acc == collectSelection([files |-> processedFiles, paths |-> processedPaths,
                                    cache |-> mimeCache, seen |-> processedAbsPaths],
                                   walk.files, rootForMatching)
           skip(outcome, reached) ==
               /\ trail' = Append(trail, [root |-> fsPath, outcome |-> outcome,
                                          files |-> <<>>, skipped |-> <<>>])
               /\ pc' = IF outcome = "crash" THEN "crashed" ELSE pc
               /\ ignoreHelpers' = IF reached THEN got.helpers ELSE ignoreHelpers
               /\ loads' = IF reached THEN got.loads ELSE loads
               /\ UNCHANGED <<processedFiles, processedPaths, processedAbsPaths, mimeCache>>
       IN  IF relativePath # <<>> /\ checkPathThrows(relativePath) THEN skip("crash", FALSE)
           ELSE IF /\ relativePath # <<>>
                   /\ ignores(excludes, relativePath)
                   /\ ~ignores(includes, relativePath)
           THEN skip("excluded", FALSE)
           ELSE IF /\ useGitIgnore
                   /\ ~ignoreHelper.none
                   /\ shouldIgnore(ignoreHelper, fsPath)
                   /\ ~isForcedRoot
           THEN skip("ignored", TRUE)
           ELSE IF ~existsSync(fsPath) \/ fsPath \in faulty THEN skip("crash", TRUE)
           ELSE /\ trail' = Append(trail, [root |-> fsPath,
                                           outcome |-> IF isDirectory(fsPath)
                                                       THEN "walked" ELSE "file",
                                           files |-> walk.files,
                                           skipped |-> walk.skipped])
                /\ processedFiles' = acc.files
                /\ processedPaths' = acc.paths
                /\ processedAbsPaths' = acc.seen
                /\ mimeCache' = acc.cache
                /\ ignoreHelpers' = got.helpers
                /\ loads' = got.loads
                /\ pc' = pc
    /\ uris' = Append(uris, fsPath)
    /\ budget' = budget - 1
    /\ UNCHANGED <<host, cwd, hasIgnoreFile, faulty, gitignoreLines, excludes, includes,
                   useGitIgnore, mode, structureFormat, output>>
    /\ UNCHANGED <<treeVars, binaryVars, envVars>>

\* A driver that graphs the walked paths in every mode.
pathsForTreeWalked(files, paths) == paths

\* const pathsForTree = needContent ? processedFiles.map(f => f.absolutePath)
\*                                  : processedPaths
pathsForTree(files, paths) == IF needContent THEN absolutePaths(files) ELSE paths

\* The code after the loop, in both drivers: the output is composed.  The
\* commands of the editor are not run on an empty selection.
Finish ==
    /\ pc = "loop"
    /\ host = "ext" => uris # <<>>
    /\ LET basePath == IF host = "cli" THEN cwd ELSE commonBasePathOf(uris)
       IN  output' = generateOutput(processedFiles,
                                    pathsForTree(processedFiles, processedPaths), basePath,
                                    needContent, needTree, fileTemplate,
                                    DEFAULT_TREE_TEMPLATE, structureFormat)
    /\ pc' = "done"
    /\ UNCHANGED <<host, cwd, hasIgnoreFile, faulty, gitignoreLines, excludes, includes,
                   useGitIgnore, mode, structureFormat, budget, uris, trail,
                   processedFiles, processedPaths, processedAbsPaths, mimeCache>>
    /\ UNCHANGED <<treeVars, binaryVars, envVars, helperVars>>

(***************************************************************************)
(* The tree builder and the renderer on their own                          *)
(***************************************************************************)
MaxPaths == 3

\* The path strings given to the builder: with either separator, with a
\* leading separator, and one that is a proper prefix of others.
PathStrings ==
    {<<"src", "/", "x.ts">>, <<"src", "/", "y.ts">>, <<"src", "\\", "x.ts">>,
     <<"src">>, <<"README">>, <<"a.py">>, <<"lib", "/", "m.js">>,
     <<"/", "ws", "/", "src", "/", "x.ts">>}

NoTree == [nodes |-> <<>>, root |-> 0, rootName |-> "none"]

RECURSIVE SeqsUpTo(_, _)
SeqsUpTo(S, n) ==
    IF n = 0 THEN {<<>>}
    ELSE LET shorter == SeqsUpTo(S, n - 1)
         IN  shorter \cup {Append(q, x) : q \in shorter, x \in S}

\* const tree = buildFileTree(pathsToGraph)
BuildTree ==
    /\ pc = "paths"
    /\ tree' = buildFileTree(pathStrings)
    /\ pc' = "built"
    /\ UNCHANGED <<host, cwd, hasIgnoreFile, faulty, gitignoreLines, excludes, includes,
                   useGitIgnore, mode, structureFormat, budget, uris, trail,
                   processedFiles, processedPaths, processedAbsPaths, output, mimeCache>>
    /\ UNCHANGED <<pathStrings, treeString, binaryVars, envVars, helperVars>>

\* generateTreeString(tree)
RenderTree ==
    /\ pc = "built"
    /\ treeString' = generateTreeString(tree, tree.root, <<>>, TRUE)
    /\ pc' = "rendered"
    /\ UNCHANGED <<host, cwd, hasIgnoreFile, faulty, gitignoreLines, excludes, includes,
                   useGitIgnore, mode, structureFormat, budget, uris, trail,
                   processedFiles, processedPaths, processedAbsPaths, output, mimeCache>>
    /\ UNCHANGED <<pathStrings, tree, binaryVars, envVars, helperVars>>

(***************************************************************************)
(* The binary heuristic on its own                                         *)
(***************************************************************************)
MaxPrefix == 2
MaxPad == 20

\* A NUL, a bell (a control character that is not allowed), a line feed (an
\* allowed one), a letter, DEL, and a byte whose top five bits are set.
ByteKinds == {0, 7, 10, 65, 127, 248}

Padding(k) == [i \in 1..k |-> 65]

\* containsBinaryContent(buffer.slice(0, bytesRead))
Classify ==
    /\ pc = "sample"
    /\ isBinary' = containsBinaryContent(sample)
    /\ pc' = "classified"
    /\ UNCHANGED <<host, cwd, hasIgnoreFile, faulty, gitignoreLines, excludes, includes,
                   useGitIgnore, mode, structureFormat, budget, uris, trail,
                   processedFiles, processedPaths, processedAbsPaths, output, mimeCache>>
    /\ UNCHANGED <<sample, treeVars, envVars, helperVars>>

(***************************************************************************)
(* Specifications                                                          *)
(***************************************************************************)
RuleRoots == 1

IgnoreFiles == {{PDir("b")}, {PName(".env")}}
ExcludeSets == {{}, {PName("b")}, {PExt(".png")}}
IncludeSets == {{}, {PName("c.png")}, {PName(".env")}, {PDeep(".env")}, {PName("m.js")}}

\* An environment without faults, a repository marker at the root or
\* rewritten files; the default template; no engine built yet.
InitPlain ==
    /\ unlistable = {}
    /\ rootMarker = FALSE
    /\ secondFolder = <<>>
    /\ rewritten = {}
    /\ modeArg = ""
    /\ fileTemplate = DEFAULT_FILE_TEMPLATE
    /\ invocation = 1
    /\ cancelAfter = <<>>
    /\ unreadable = {}
    /\ ignoreHelpers = <<>>
    /\ loads = <<>>

\* The state of an invocation before its first root.
InitInvocation ==
    /\ faulty = {}
    /\ pc = "loop"
    /\ uris = <<>>
    /\ trail = <<>>
    /\ processedFiles = <<>>
    /\ processedPaths = <<>>
    /\ processedAbsPaths = {}
    /\ output = <<>>
    /\ mimeCache = <<>>
    /\ pathStrings = <<>>
    /\ tree = NoTree
    /\ treeString = <<>>
    /\ sample = <<>>
    /\ isBinary = FALSE

\* Invocations under every combination of the rules, in content mode.
InitRules ==
    /\ InitInvocation
    /\ InitPlain
    /\ host \in {"cli", "ext"}
    /\ cwd \in {WS, PROJ}
    /\ hasIgnoreFile \in BOOLEAN
    /\ gitignoreLines \in (IF hasIgnoreFile THEN IgnoreFiles ELSE {{}})
    /\ excludes \in ExcludeSets
    /\ includes \in IncludeSets
    /\ useGitIgnore \in BOOLEAN
    /\ mode = "content"
    /\ structureFormat = "relative"
    /\ budget = RuleRoots

\* Invocations under every mode and structure format, with the default
\* rules.
InitOutput ==
    /\ InitInvocation
    /\ InitPlain
    /\ host \in {"cli", "ext"}
    /\ cwd \in {WS, PROJ}
    /\ hasIgnoreFile = FALSE
    /\ gitignoreLines = {}
    /\ excludes = {}
    /\ includes = {}
    /\ useGitIgnore = TRUE
    /\ mode \in {"content", "tree", "full"}
    /\ structureFormat \in {"repo", "relative", "absolute"}
    /\ budget = MaxRoots

Next ==
    \/ \E targetPath \in Roots : ProcessTarget(targetPath)
    \/ \E fsPath \in Roots : ProcessSelection(fsPath)
    \/ Finish

Spec == InitOutput /\ [][Next]_vars
SpecRules == InitRules /\ [][Next]_vars

InitTree ==
    /\ host = "cli" /\ cwd = WS /\ hasIgnoreFile = FALSE /\ gitignoreLines = {}
    /\ excludes = {} /\ includes = {} /\ useGitIgnore = TRUE
    /\ mode = "tree" /\ structureFormat = "relative" /\ budget = 0
    /\ InitPlain
    /\ faulty = {} /\ uris = <<>> /\ trail = <<>>
    /\ processedFiles = <<>> /\ processedPaths = <<>> /\ processedAbsPaths = {}
    /\ output = <<>> /\ mimeCache = <<>>
    /\ sample = <<>> /\ isBinary = FALSE
    /\ pc = "paths"
    /\ pathStrings \in SeqsUpTo(PathStrings, MaxPaths)
    /\ tree = NoTree
    /\ treeString = <<>>

NextTree == BuildTree \/ RenderTree
SpecTree == InitTree /\ [][NextTree]_vars

InitBinary ==
    /\ host = "cli" /\ cwd = WS /\ hasIgnoreFile = FALSE /\ gitignoreLines = {}
    /\ excludes = {} /\ includes = {} /\ useGitIgnore = TRUE
    /\ mode = "content" /\ structureFormat = "relative" /\ budget = 0
    /\ InitPlain
    /\ faulty = {} /\ uris = <<>> /\ trail = <<>>
    /\ processedFiles = <<>> /\ processedPaths = <<>> /\ processedAbsPaths = {}
    /\ output = <<>> /\ mimeCache = <<>>
    /\ pathStrings = <<>> /\ tree = NoTree /\ treeString = <<>>
    /\ pc = "sample"
    /\ \E prefix \in SeqsUpTo(ByteKinds, MaxPrefix), k \in 0..MaxPad :
          sample = prefix \o Padding(k)
    /\ isBinary = FALSE

NextBinary == Classify
SpecBinary == InitBinary /\ [][NextBinary]_vars

(***************************************************************************)
(* Invocations on single files of every size and of every position with   *)
(* respect to the repositories, under every mode and structure format.     *)
(***************************************************************************)
FileRoots == 2

FileRootSet ==
    {<<"out">>, <<"out", "big.ts">>, <<"out", "lim.ts">>,
     <<"out", "rep", "in", "k.ts">>, <<"ws", "src", "x.ts">>, <<"ws", "README">>}

InitFiles ==
    /\ InitInvocation
    /\ unlistable = {}
    /\ rootMarker \in BOOLEAN
    /\ secondFolder = <<>>
    /\ rewritten = {}
    /\ modeArg = ""
    /\ fileTemplate = DEFAULT_FILE_TEMPLATE
    /\ invocation = 1
    /\ cancelAfter = <<>>
    /\ unreadable = {}
    /\ ignoreHelpers = <<>>
    /\ loads = <<>>
    /\ host \in {"cli", "ext"}
    /\ cwd \in {WS, <<"out">>}
    /\ hasIgnoreFile = FALSE
    /\ gitignoreLines = {}
    /\ excludes = {}
    /\ includes = {}
    /\ useGitIgnore = TRUE
    /\ mode \in {"content", "tree", "full"}
    /\ structureFormat \in {"repo", "relative", "absolute"}
    /\ budget = FileRoots

NextFiles ==
    \/ \E targetPath \in FileRootSet : ProcessTarget(targetPath)
    \/ \E fsPath \in FileRootSet : ProcessSelection(fsPath)
    \/ Finish

SpecFiles == InitFiles /\ [][NextFiles]_vars

(***************************************************************************)
(* Invocations of the CLI in content mode under every short file template  *)
(***************************************************************************)
MaxTemplate == 2

\* The atoms of a file template: the tokens of formatContent, a token it
\* does not know, and literal text.
TemplateAtoms ==
    {"{{fileName}}", "{{relativePath}}", "{{repoPath}}", "{{absolutePath}}",
     "{{path}}", "{{language}}", "{{content}}", "{{unknown}}", "text "}

FormatRootSet ==
    {<<"ws", "src", "x.ts">>, <<"out", "rep", "in", "k.ts">>,
     <<"tpl", "{{content}}", "t.ts">>}

InitFormat ==
    /\ InitInvocation
    /\ unlistable = {}
    /\ rootMarker = FALSE
    /\ secondFolder = <<>>
    /\ rewritten = {}
    /\ modeArg = ""
    /\ fileTemplate \in SeqsUpTo(TemplateAtoms, MaxTemplate)
    /\ invocation = 1
    /\ cancelAfter = <<>>
    /\ unreadable = {}
    /\ ignoreHelpers = <<>>
    /\ loads = <<>>
    /\ host = "cli"
    /\ cwd = WS
    /\ hasIgnoreFile = FALSE
    /\ gitignoreLines = {}
    /\ excludes = {}
    /\ includes = {}
    /\ useGitIgnore = TRUE
    /\ mode = "content"
    /\ structureFormat = "repo"
    /\ budget = 1

NextFormat ==
    \/ \E targetPath \in FormatRootSet : ProcessTarget(targetPath)
    \/ Finish

SpecFormat == InitFormat /\ [][NextFormat]_vars

(***************************************************************************)
(* Invocations under every configuration value, recognized or not          *)
(***************************************************************************)
ConfigRoots == 1

\* m.toLowerCase(), for the values of the model
toLowerCase(m) == IF m = "FULL" THEN "full" ELSE m

\* The mode logic of the CLI: content by default, tree with --tree-only, and
\* the value of --mode when it is one of the three modes.
parseMode(treeOnly, arg) ==
    IF arg # "" /\ toLowerCase(arg) \in {"content", "tree", "full"}
    THEN toLowerCase(arg)
    ELSE IF treeOnly THEN "tree" ELSE "content"

ModeArgs == {"", "full", "FULL", "bogus"}
StructureValues == {"repo", "relative", "absolute", "bogus"}
ConfigRootSet == {<<"ws", "src", "x.ts">>, PROJ}

\* The CLI takes the mode from its arguments; the editor fixes it by the
\* command that was run.  Both take structureFormat as it was written.
InitConfig ==
    /\ InitInvocation
    /\ unlistable = {}
    /\ rootMarker = FALSE
    /\ secondFolder = <<>>
    /\ rewritten = {}
    /\ fileTemplate = DEFAULT_FILE_TEMPLATE
    /\ invocation = 1
    /\ cancelAfter = <<>>
    /\ unreadable = {}
    /\ ignoreHelpers = <<>>
    /\ loads = <<>>
    /\ host \in {"cli", "ext"}
    /\ cwd = WS
    /\ hasIgnoreFile = FALSE
    /\ gitignoreLines = {}
    /\ excludes = {}
    /\ includes = {}
    /\ useGitIgnore = TRUE
    /\ modeArg \in (IF host = "cli" THEN ModeArgs ELSE {""})
    /\ mode \in (IF host = "cli"
                 THEN {parseMode(treeOnly, modeArg) : treeOnly \in BOOLEAN}
                 ELSE {"content", "tree", "full"})
    /\ structureFormat \in StructureValues
    /\ budget = ConfigRoots

NextConfig ==
    \/ \E targetPath \in ConfigRootSet : ProcessTarget(targetPath)
    \/ \E fsPath \in ConfigRootSet : ProcessSelection(fsPath)
    \/ Finish

SpecConfig == InitConfig /\ [][NextConfig]_vars

(***************************************************************************)
(* Walks of a filesystem with one entry that cannot be stat'ed and one     *)
(* directory that cannot be listed                                         *)
(***************************************************************************)
FaultRoots == 1

\* Entries on which statSync throws (a dangling symbolic link, a file that
\* was removed after the listing), and directories on which readdirSync
\* throws (no permission to read).
FaultyEntries ==
    {<<"ws", "proj", "a.py">>, <<"ws", "proj", "b">>, <<"ws", "src", "x.ts">>,
     <<"ws", ".env">>, <<"ws", "node_modules">>}
UnlistableDirs == {PROJ, <<"ws", "proj", "b">>, <<"ws", "src">>}
FaultRootSet == {WS, PROJ}

InitFaults ==
    /\ pc = "loop"
    /\ uris = <<>>
    /\ trail = <<>>
    /\ processedFiles = <<>>
    /\ processedPaths = <<>>
    /\ processedAbsPaths = {}
    /\ output = <<>>
    /\ mimeCache = <<>>
    /\ pathStrings = <<>>
    /\ tree = NoTree
    /\ treeString = <<>>
    /\ sample = <<>>
    /\ isBinary = FALSE
    /\ faulty \in {{}} \cup {{p} : p \in FaultyEntries}
    /\ unlistable \in {{}} \cup {{d} : d \in UnlistableDirs}
    /\ rootMarker = FALSE
    /\ secondFolder = <<>>
    /\ rewritten = {}
    /\ modeArg = ""
    /\ fileTemplate = DEFAULT_FILE_TEMPLATE
    /\ invocation = 1
    /\ cancelAfter = <<>>
    /\ unreadable = {}
    /\ ignoreHelpers = <<>>
    /\ loads = <<>>
    /\ host \in {"cli", "ext"}
    /\ cwd = WS
    /\ hasIgnoreFile = FALSE
    /\ gitignoreLines = {}
    /\ excludes = {}
    /\ includes = {}
    /\ useGitIgnore \in BOOLEAN
    /\ mode \in {"content", "tree"}
    /\ structureFormat = "relative"
    /\ budget = FaultRoots

NextFaults ==
    \/ \E targetPath \in FaultRootSet : ProcessTarget(targetPath)
    \/ \E fsPath \in FaultRootSet : ProcessSelection(fsPath)
    \/ Finish

SpecFaults == InitFaults /\ [][NextFaults]_vars

(***************************************************************************)
(* The binary detector on its own: a process that classifies one file      *)
(* after the other, each for the first time, and now and then the first    *)
(* file again.                                                             *)
(***************************************************************************)
MaxProbes == 1010

\* The n-th file given to the detector.
probedFile(n) == <<"gen", ToString(n)>>

\* BinaryDetector.isFileBinary(filePath); budget counts the insertions into
\* the cache that are still to come.
ProbeFile(filePath) ==
    /\ pc = "probing"
    /\ budget > 0
    /\ LET probe == isFileBinary(mimeCache, filePath)
       IN  /\ mimeCache' = probe.cache
           /\ isBinary' = probe.result
           /\ budget' = IF probe.cache = mimeCache THEN budget ELSE budget - 1
    /\ UNCHANGED <<host, cwd, hasIgnoreFile, faulty, gitignoreLines, excludes, includes,
                   useGitIgnore, mode, structureFormat, pc, uris, trail,
                   processedFiles, processedPaths, processedAbsPaths, output>>
    /\ UNCHANGED <<sample, treeVars, envVars, helperVars>>

InitCache ==
    /\ host = "cli" /\ cwd = WS /\ hasIgnoreFile = FALSE /\ gitignoreLines = {}
    /\ excludes = {} /\ includes = {} /\ useGitIgnore = TRUE
    /\ mode = "content" /\ structureFormat = "relative"
    /\ InitPlain
    /\ faulty = {} /\ uris = <<>> /\ trail = <<>>
    /\ processedFiles = <<>> /\ processedPaths = <<>> /\ processedAbsPaths = {}
    /\ output = <<>> /\ mimeCache = <<>>
    /\ pathStrings = <<>> /\ tree = NoTree /\ treeString = <<>>
    /\ sample = <<>> /\ isBinary = FALSE
    /\ pc = "probing"
    /\ budget = MaxProbes

NextCache ==
    \E filePath \in {probedFile(MaxProbes - budget + 1), probedFile(1)} :
        ProbeFile(filePath)

SpecCache == InitCache /\ [][NextCache]_vars

(***************************************************************************)
(* Several invocations of the editor command in one extension host, with   *)
(* files rewritten between them                                            *)
(***************************************************************************)
MaxInvocations == 2
SessionRoots == 2

SessionRootSet == {<<"ws", "proj", "b", "c.png">>, PROJ, <<"ws", "README">>}
RewritableFiles == {<<"ws", "proj", "b", "c.png">>}

\* The command is run again in the same process, after the files in
\* `changed` were rewritten as text.  What processSelections declares is
\* new in every call; the static cache of BinaryDetector is what it was.
NewInvocation(changed) ==
    /\ pc \in {"done", "crashed"}
    /\ invocation < MaxInvocations
    /\ invocation' = invocation + 1
    /\ rewritten' = rewritten \cup changed
    /\ pc' = "loop"
    /\ budget' = SessionRoots
    /\ uris' = <<>>
    /\ trail' = <<>>
    /\ processedFiles' = <<>>
    /\ processedPaths' = <<>>
    /\ processedAbsPaths' = {}
    /\ output' = <<>>
    /\ ignoreHelpers' = <<>>
    /\ loads' = <<>>
    /\ UNCHANGED mimeCache
    /\ UNCHANGED <<host, cwd, hasIgnoreFile, faulty, gitignoreLines, excludes, includes,
                   useGitIgnore, mode, structureFormat>>
    /\ UNCHANGED <<unlistable, unreadable, rootMarker, secondFolder, modeArg,
                   fileTemplate, cancelAfter>>
    /\ UNCHANGED <<treeVars, binaryVars>>

InitSessions ==
    /\ InitInvocation
    /\ InitPlain
    /\ host = "ext"
    /\ cwd = WS
    /\ hasIgnoreFile = FALSE
    /\ gitignoreLines = {}
    /\ excludes = {}
    /\ includes = {}
    /\ useGitIgnore = TRUE
    /\ mode \in {"content", "full"}
    /\ structureFormat = "relative"
    /\ budget = SessionRoots

NextSessions ==
    \/ \E fsPath \in SessionRootSet : ProcessSelection(fsPath)
    \/ Finish
    \/ \E changed \in SUBSET RewritableFiles : NewInvocation(changed)

SpecSessions == InitSessions /\ [][NextSessions]_vars

(***************************************************************************)
(* Invocations on several items of one or two workspace folders            *)
(***************************************************************************)
HelperRoots == 2

HelperRootSet ==
    {PROJ, <<"ws", "src", "x.ts">>, <<"ws", ".env">>, <<"out">>, <<"out", "o.txt">>}

InitHelpers ==
    /\ InitInvocation
    /\ unlistable = {}
    /\ rootMarker = FALSE
    /\ rewritten = {}
    /\ modeArg = ""
    /\ fileTemplate = DEFAULT_FILE_TEMPLATE
    /\ invocation = 1
    /\ cancelAfter = <<>>
    /\ unreadable = {}
    /\ ignoreHelpers = <<>>
    /\ loads = <<>>
    /\ host \in {"cli", "ext"}
    /\ cwd = WS
    /\ secondFolder \in (IF host = "ext" THEN {<<>>, <<"out">>} ELSE {<<>>})
    /\ hasIgnoreFile \in BOOLEAN
    /\ gitignoreLines \in (IF hasIgnoreFile THEN {{PName(".env")}} ELSE {{}})
    /\ excludes = {}
    /\ includes = {}
    /\ useGitIgnore \in BOOLEAN
    /\ mode = "content"
    /\ structureFormat = "relative"
    /\ budget = HelperRoots

NextHelpers ==
    \/ \E targetPath \in HelperRootSet : ProcessTarget(targetPath)
    \/ \E fsPath \in HelperRootSet : ProcessSelection(fsPath)
    \/ Finish

SpecHelpers == InitHelpers /\ [][NextHelpers]_vars

(***************************************************************************)
(* Invocations of the editor command during which Cancel may be pressed    *)
(***************************************************************************)
CancelRoots == 3
MaxCancelAfter == 3

CancelRootSet == {PROJ, <<"ws", "src">>, <<"ws", "README">>, <<"ws", "src", "x.ts">>}

InitCancel ==
    /\ InitInvocation
    /\ unlistable = {}
    /\ rootMarker = FALSE
    /\ secondFolder = <<>>
    /\ rewritten = {}
    /\ modeArg = ""
    /\ fileTemplate = DEFAULT_FILE_TEMPLATE
    /\ invocation = 1
    /\ cancelAfter \in {<<>>} \cup {<<n>> : n \in 0..MaxCancelAfter}
    /\ unreadable = {}
    /\ ignoreHelpers = <<>>
    /\ loads = <<>>
    /\ host = "ext"
    /\ cwd = WS
    /\ hasIgnoreFile = FALSE
    /\ gitignoreLines = {}
    /\ excludes = {}
    /\ includes = {}
    /\ useGitIgnore = TRUE
    /\ mode \in {"content", "tree", "full"}
    /\ structureFormat = "relative"
    /\ budget = CancelRoots

NextCancel ==
    \/ \E fsPath \in CancelRootSet : ProcessSelection(fsPath)
    \/ Finish

SpecCancel == InitCancel /\ [][NextCancel]_vars

(***************************************************************************)
(* Walks under patterns that name a directory or a path of two segments,   *)
(* with and without an engine of the ignore file                           *)
(***************************************************************************)
DepthRoots == 1

DepthRootSet == {PROJ, <<"ws", "src">>}
DepthExcludeSets == {{}, {PDir("b")}, {PPath(<<"b", "c.png">>)}, {PName("c.png")}}
DepthIncludeSets == {{}, {PPath(<<"b", "c.png">>)}}

InitDepth ==
    /\ InitInvocation
    /\ InitPlain
    /\ host \in {"cli", "ext"}
    /\ cwd \in {WS, PROJ}
    /\ hasIgnoreFile = FALSE
    /\ gitignoreLines = {}
    /\ excludes \in DepthExcludeSets
    /\ includes \in DepthIncludeSets
    /\ useGitIgnore \in BOOLEAN
    /\ mode = "content"
    /\ structureFormat = "relative"
    /\ budget = DepthRoots

NextDepth ==
    \/ \E targetPath \in DepthRootSet : ProcessTarget(targetPath)
    \/ \E fsPath \in DepthRootSet : ProcessSelection(fsPath)
    \/ Finish

SpecDepth == InitDepth /\ [][NextDepth]_vars

(***************************************************************************)
(* Invocations under every mode on files that the classification rejects:  *)
(* one over the size limit, one binary, one that cannot be read            *)
(***************************************************************************)
ModeRoots == 2

ModeRootSet ==
    {PROJ, <<"ws", "src">>, <<"ws", "src", "x.ts">>, <<"out", "big.ts">>,
     <<"out", "lim.ts">>}
UnreadableFiles == {<<"ws", "src", "x.ts">>}

InitModes ==
    /\ InitInvocation
    /\ unlistable = {}
    /\ unreadable \in SUBSET UnreadableFiles
    /\ rootMarker = FALSE
    /\ secondFolder = <<>>
    /\ rewritten = {}
    /\ modeArg = ""
    /\ fileTemplate = DEFAULT_FILE_TEMPLATE
    /\ invocation = 1
    /\ cancelAfter = <<>>
    /\ ignoreHelpers = <<>>
    /\ loads = <<>>
    /\ host \in {"cli", "ext"}
    /\ cwd = WS
    /\ hasIgnoreFile = FALSE
    /\ gitignoreLines = {}
    /\ excludes = {}
    /\ includes = {}
    /\ useGitIgnore = TRUE
    /\ mode \in {"content", "tree", "full"}
    /\ structureFormat \in {"repo", "relative", "absolute"}
    /\ budget = ModeRoots

NextModes ==
    \/ \E targetPath \in ModeRootSet : ProcessTarget(targetPath)
    \/ \E fsPath \in ModeRootSet : ProcessSelection(fsPath)
    \/ Finish

SpecModes == InitModes /\ [][NextModes]_vars

(***************************************************************************)
(* Properties.  The trail holds, per root, what the loop did with it: the  *)
(* files the walk returned and the skips it notified.                      *)
(***************************************************************************)
Entries == {trail[i] : i \in 1..Len(trail)}
Walked == {e \in Entries : e.outcome = "walked"}

\* A path as the rules see it, relative to the walked root.
relTo(root, P) == pathRelative(root, P)
forced(root, P) == ignores(includes, relTo(root, P))
excluded(root, P) == ignores(excludes, relTo(root, P))

\* The root against which the walker matched the rules on the way to P, and
\* whether the walk could match at all (the root lies inside it).
helperRootOf(root) ==
    IF host = "cli" THEN (IF useGitIgnore THEN cwd ELSE <<>>)
    ELSE (IF useGitIgnore THEN workspaceRootOf(root) ELSE <<>>)
matchable(root) == helperRootOf(root) = <<>> \/ IsPrefix(helperRootOf(root), root)

\* C1: for every walked root and every file P under it, if a forced-include
\* pattern matches P and an exclude pattern matches P as well, P is in the
\* result of the walk.
C1_ForcedIncludeBeatsExclude ==
    \A e \in Walked :
        matchable(e.root) =>
            \A P \in FilesUnder(e.root) :
                (forced(e.root, P) /\ excluded(e.root, P)) => P \in Range(e.files)

\* C1, the failing input: b is excluded, c.png is forced-included, no ignore
\* file is in play; the walk of /ws/proj skips directory b and never meets
\* b/c.png.
C1_Witness ==
    /\ excludes = {PName("b")}
    /\ includes = {PName("c.png")}
    /\ ~useGitIgnore
    /\ \E e \in Walked :
          /\ e.root = PROJ
          /\ <<"ws", "proj", "b", "c.png">> \notin Range(e.files)
          /\ [path |-> <<"ws", "proj", "b">>, reason |-> "exclude_pattern"]
                \in Range(e.skipped)

\* C2: a path that a forced-include pattern matches is never skipped because
\* of the ignore file: no walk notifies such a skip, and no selected root of
\* processSelections is dropped by the ignore file, whatever kind of pattern
\* (glob or literal name) matches it.
C2_ForcedIncludeBeatsIgnoreFile ==
    /\ \A e \in Walked :
          \A k \in 1..Len(e.skipped) :
              (e.skipped[k].reason = "gitignore" /\ matchable(e.root))
                  => ~ignores(includes, relTo(helperRootOf(e.root), e.skipped[k].path))
    /\ \A e \in Entries :
          e.outcome = "ignored"
              => ~ignores(includes, relTo(workspaceRootOf(e.root), e.root))

\* C2, the failing input: .env is in the ignore file and **/.env is a
\* forced-include; the selected root /ws/.env is dropped.
C2_Witness ==
    /\ host = "ext"
    /\ gitignoreLines = {PName(".env")}
    /\ includes = {PDeep(".env")}
    /\ \E e \in Entries : e.root = <<"ws", ".env">> /\ e.outcome = "ignored"

\* The three lines of the scenario: the header, then the two children at
\* depth one.
C3_Expected ==
    <<"src", "/", "\n", MID_CONNECTOR, "x.ts", "\n", LAST_CONNECTOR, "y.ts">>

C3_Scenario ==
    /\ pc = "done"
    /\ mode = "tree"
    /\ structureFormat = "relative"
    /\ cwd = WS
    /\ Len(uris) = 2
    /\ Range(uris) = {<<"ws", "src", "x.ts">>, <<"ws", "src", "y.ts">>}

\* C3: in tree-only mode, selecting exactly src/x.ts and src/y.ts yields a
\* tree body of exactly three lines: src/, then x.ts with the tee connector,
\* then y.ts with the corner connector.
C3_TreeOnlyThreeLines ==
    C3_Scenario => output = replaceAll(DEFAULT_TREE_TEMPLATE, "{{tree}}", C3_Expected)

\* C3, the failing input: the scenario ends with four lines, the root being
\* drawn a second time below its header, and its children one level deeper.
C3_Witness ==
    /\ C3_Scenario
    /\ output = replaceAll(DEFAULT_TREE_TEMPLATE, "{{tree}}",
                   <<"src", "/", "\n", LAST_CONNECTOR, "src", "\n",
                     "    ", MID_CONNECTOR, "x.ts", "\n",
                     "    ", LAST_CONNECTOR, "y.ts">>)

A_PY == <<"ws", "proj", "a.py">>
C_PNG == <<"ws", "proj", "b", "c.png">>

\* The scenario of C4: /ws/proj holds a.py and b/c.png, the ignore file
\* holds b/, there are no exclude and no forced-include patterns, and
\* /ws/proj is what is walked.
C4_Scenario ==
    /\ hasIgnoreFile
    /\ gitignoreLines = {PDir("b")}
    /\ excludes = {}
    /\ includes = {}
    /\ Range(uris) = {PROJ}

\* The block of a.py under the default file template.
C4_Block ==
    <<"### '">> \o pathString(pathRelative(cwd, A_PY))
        \o <<"'\n\n'''", "python", "\n", "<<", "a.py", ">>", "\n'''\n\n">>

C4_ContentHoldsOnlyA ==
    (pc = "done" /\ mode = "content") => output = C4_Block

countOf(s, S) == Cardinality({i \in 1..Len(s) : s[i] \in S})
C5_Nuls == countOf(sample, {0})
C5_Controls == countOf(sample, (0..31) \ {9, 10, 13, 12})
C5_NoLeadByte == \A i \in 1..Len(sample) : sample[i] < 248

\* C5: a sample with more than 10% NUL bytes is classified binary; a sample
\* with at most 10% NUL bytes, at most 10% control bytes other than tab,
\* line feed, carriage return and form feed, and no byte whose top five bits
\* are all set is classified not binary, the empty sample included.
C5_BinaryThresholds ==
    pc = "classified" =>
        /\ C5_Nuls * 10 > Len(sample) => isBinary
        /\ (/\ C5_Nuls * 10 <= Len(sample)
            /\ C5_Controls * 10 <= Len(sample)
            /\ C5_NoLeadByte) => ~isBinary

\* C5, reached: one NUL in ten bytes, exactly 10%, is not binary.
C5_Witness ==
    /\ pc = "classified"
    /\ Len(sample) = 10
    /\ C5_Nuls = 1
    /\ C5_Controls = 1
    /\ ~isBinary

(***************************************************************************)
(* The tree builder and the renderer                                       *)
(***************************************************************************)
render(paths) ==
    LET t == buildFileTree(paths) IN generateTreeString(t, t.root, <<>>, TRUE)

\* One fixed sequence that lists the set S once.
RECURSIVE listingOf(_)
listingOf(S) ==
    IF S = {} THEN <<>>
    ELSE LET x == CHOOSE y \in S : TRUE IN <<x>> \o listingOf(S \ {x})

Reverse(s) == [i \in 1..Len(s) |-> s[Len(s) + 1 - i]]

\* C6: every sequence that lists the same set of path strings, in any order
\* and with or without repeats, renders to the same string (each is compared
\* with one fixed listing of the set, with itself reversed and with itself
\* repeated); and rendering the same tree again gives the same string.
C6_RenderOrderIndependent ==
    pc = "rendered" =>
        /\ treeString = render(listingOf(Range(pathStrings)))
        /\ treeString = render(Reverse(pathStrings))
        /\ treeString = render(pathStrings \o pathStrings)
        /\ treeString = generateTreeString(tree, tree.root, <<>>, TRUE)

\* C6, reached: three paths given out of order, a file between two files of
\* one directory.
C6_Witness ==
    /\ pc = "rendered"
    /\ pathStrings = << <<"src", "/", "y.ts">>, <<"README">>, <<"src", "/", "x.ts">> >>
    /\ treeString = <<".", "/", "\n",
                      "    ", MID_CONNECTOR, "src", "\n",
                      "    ", BAR_PREFIX, MID_CONNECTOR, "x.ts", "\n",
                      "    ", BAR_PREFIX, LAST_CONNECTOR, "y.ts", "\n",
                      "    ", LAST_CONNECTOR, "README", "\n">>

\* The lines of a rendered tree.
RECURSIVE linesFrom(_, _)
linesFrom(text, line) ==
    IF text = <<>> THEN (IF line = <<>> THEN <<>> ELSE <<line>>)
    ELSE IF Head(text) = "\n" THEN <<line>> \o linesFrom(Tail(text), <<>>)
    ELSE linesFrom(Tail(text), Append(line, Head(text)))
linesOf(text) == linesFrom(text, <<>>)

\* A line is the placeholder header (a name and a slash) or a node: its
\* prefixes, its connector and its name.  A node is as deep as its line has
\* atoms before the name.
isHeaderLine(line) == Last(line) = "/"
depthOf(line) == IF isHeaderLine(line) THEN 0 ELSE Len(line) - 1
nameOf(line) == IF isHeaderLine(line) THEN Head(line) ELSE Last(line)

\* The path string of the node drawn on line k: its ancestors are the nearest
\* lines above it that are less deep.
RECURSIVE pathOfLine(_, _)
pathOfLine(lines, k) ==
    LET above == {j \in 1..(k - 1) :
                     ~isHeaderLine(lines[j]) /\ depthOf(lines[j]) < depthOf(lines[k])}
        parent == CHOOSE j \in above : \A i \in above : i <= j
    IN  IF above = {} THEN <<nameOf(lines[k])>>
        ELSE pathOfLine(lines, parent) \o <<"/", nameOf(lines[k])>>

\* The leaf paths read back from a rendered tree, in the order drawn.
leafPathsOf(text) ==
    LET lines == linesOf(text)
        leaves == SelectSeq([k \in 1..Len(lines) |-> k],
                            LAMBDA k : /\ ~isHeaderLine(lines[k])
                                       /\ \/ k = Len(lines)
                                          \/ depthOf(lines[k + 1]) <= depthOf(lines[k]))
    IN  [i \in 1..Len(leaves) |-> pathOfLine(lines, leaves[i])]

\* Two trees are isomorphic: the same root, and the same nodes by name and
\* place, with the same marking.
shapeOf(t) ==
    {[path |-> t.nodes[i].path, isDirectory |-> t.nodes[i].isDirectory] :
        i \in 1..Len(t.nodes)}
Isomorphic(t, u) ==
    /\ shapeOf(t) = shapeOf(u)
    /\ (t.root = 0) = (u.root = 0)
    /\ t.rootName = u.rootName

\* C7: the tree built from the leaf paths read back from the rendering of
\* build(S) is isomorphic to build(S): same names, same parent-child
\* structure, same directory/file marking.
C7_RoundTripIsomorphic ==
    pc = "rendered" => Isomorphic(buildFileTree(leafPathsOf(treeString)), tree)

\* C7, the failing input: src is listed before src/x.ts, so that build marks
\* src a file although it has a child; rebuilt from the leaf src/x.ts it is a
\* directory.
C7_Witness ==
    /\ pc = "rendered"
    /\ pathStrings = << <<"src">>, <<"src", "/", "x.ts">> >>
    /\ leafPathsOf(treeString) = << <<"src", "/", "x.ts">> >>
    /\ [path |-> <<"src">>, isDirectory |-> FALSE] \in shapeOf(tree)
    /\ [path |-> <<"src">>, isDirectory |-> TRUE]
          \in shapeOf(buildFileTree(leafPathsOf(treeString)))

(***************************************************************************)
(* The built-in denylists                                                  *)
(***************************************************************************)
HardDenylist == {".git", ".DS_Store"}
denylisted(root, P) ==
    \E i \in 1..Len(relTo(root, P)) : relTo(root, P)[i] \in HardDenylist

\* C8: a path on the hard denylist (.git and what it holds, .DS_Store) that
\* no forced-include pattern matches is skipped by the walk and by the
\* selection of roots, whether the ignore file is respected or not.
C8_HardDenylistAlwaysSkipped ==
    /\ \A e \in Walked :
          \A P \in Range(e.files) :
              denylisted(e.root, P) => forced(e.root, P)
    /\ \A e \in Entries :
          (Last(e.root) \in HardDenylist /\ ~ignores(includes, <<Last(e.root)>>))
              => e.outcome \notin {"file", "walked"}

\* C8, the failing input: with the ignore file disabled and no forced
\* include, the walk of /ws returns .DS_Store and .git/HEAD.
C8_Witness ==
    /\ ~useGitIgnore
    /\ includes = {}
    /\ \E e \in Walked :
          /\ e.root = WS
          /\ <<"ws", ".DS_Store">> \in Range(e.files)
          /\ <<"ws", ".git", "HEAD">> \in Range(e.files)

insideNodeModules(P) == "node_modules" \in Range(Front(P))

\* C9: a node_modules directory contributes paths to the result of a walk
\* if and only if a forced-include pattern targets a path inside it.
C9_NodeModulesOnlyWhenTargeted ==
    \A e \in Walked :
        matchable(e.root) =>
            ((\E P \in Range(e.files) : insideNodeModules(P))
                <=> (\E P \in FilesUnder(e.root) :
                        insideNodeModules(P) /\ forced(e.root, P)))

\* C9, the failing input: no forced include at all, and the walk of /ws
\* returns node_modules/m.js.
C9_Witness ==
    /\ includes = {}
    /\ \E e \in Walked :
          /\ e.root = WS
          /\ <<"ws", "node_modules", "m.js">> \in Range(e.files)

(***************************************************************************)
(* Files without an extension                                              *)
(***************************************************************************)
\* The files that reached processFile: the roots that are files and the
\* files the walks returned.
Candidates == UNION {Range(e.files) : e \in {x \in Entries : x.outcome \in {"file", "walked"}}}

textualByName(P) == mimeLookup(P) # NULL /\ isTextual(mimeLookup(P))

\* C10: a file without an extension, within the size limit, not on the
\* metadata denylist, whose MIME type is textual or whose sample passes the
\* binary heuristic, is processable: in content mode it has a block in the
\* output.
C10_ExtensionlessTextProcessable ==
    needContent =>
        \A P \in Candidates :
            (/\ extname(Last(P)) = ""
             /\ fileSize(P) <= MAX_FILE_SIZE
             /\ ~isExcludedFile(P)
             /\ textualByName(P) \/ ~containsBinaryContent(fileBytes(P)))
                => P \in Range(absolutePaths(processedFiles))

\* C10, the failing input: README is selected in content mode, passes the
\* binary heuristic, and yields no result and an empty output.
C10_Witness ==
    /\ mode = "content"
    /\ pc = "done"
    /\ uris = << <<"ws", "README">> >>
    /\ [key |-> <<"ws", "README">>, value |-> FALSE] \in Range(mimeCache)
    /\ processedFiles = <<>>
    /\ output = <<>>

(***************************************************************************)
(* C11                                                                     *)
(***************************************************************************)
\* Whether the output holds the content of file P (the content of a file is
\* written between the atoms "<<" and ">>" and names the file).
hasContentOf(P) ==
    \E i \in 1..(Len(output) - 1) : output[i] = "<<" /\ output[i + 1] = Last(P)

\* C11: a file of more than 3 MiB (3,145,728 bytes) gives no file record and
\* no content block, whatever else holds of it; a file of exactly 3 MiB with
\* a known extension gives a record in the modes with content, and a content
\* block once the output is composed.
C11_SizeLimit ==
    /\ MAX_FILE_SIZE = 3 * 1024 * 1024
    /\ \A P \in Candidates :
          /\ fileSize(P) > MAX_FILE_SIZE =>
                /\ P \notin Range(absolutePaths(processedFiles))
                /\ ~hasContentOf(P)
          /\ (/\ fileSize(P) = MAX_FILE_SIZE
              /\ getLanguageFromExtension(extname(Last(P))) # NULL
              /\ needContent) =>
                /\ P \in Range(absolutePaths(processedFiles))
                /\ pc = "done" => hasContentOf(P)

\* C11, its case: the file over the limit and the file at the limit were
\* both selected in content mode, and the output holds the second only.
C11_Witness ==
    /\ pc = "done"
    /\ mode = "content"
    /\ {<<"out", "big.ts">>, <<"out", "lim.ts">>} \subseteq Candidates
    /\ hasContentOf(<<"out", "lim.ts">>)
    /\ ~hasContentOf(<<"out", "big.ts">>)

(***************************************************************************)
(* C12                                                                     *)
(***************************************************************************)
\* The files the loop met, in the order it met them, each once.
RECURSIVE Dedup(_)
Dedup(s) ==
    IF s = <<>> THEN <<>>
    ELSE LET d == Dedup(Front(s))
         IN  IF Last(s) \in Range(d) THEN d ELSE Append(d, Last(s))
collectionOrder == Dedup(Flatten([i \in 1..Len(trail) |-> trail[i].files]))

\* What the composer is given once the loop has ended.
C12_Paths == IF needContent THEN absolutePaths(processedFiles) ELSE processedPaths
C12_Base == IF host = "cli" THEN cwd ELSE commonBasePathOf(uris)
C12_HasTree == mode \in {"full", "tree"} /\ C12_Paths # <<>>
C12_HasFiles == mode \in {"full", "content"}

C12_TreeBlock ==
    <<DEFAULT_TREE_TEMPLATE[1]>>
        \o trim(treeBody(C12_Paths, C12_Base, structureFormat))
        \o <<DEFAULT_TREE_TEMPLATE[3]>>
C12_FileBlocks ==
    Flatten([i \in 1..Len(processedFiles) |->
                formatContent(processedFiles[i], fileTemplate)])

\* The names of the files whose content the output holds, in output order.
C12_ContentNames ==
    LET at == SelectSeq([i \in 1..Len(output) |-> i],
                        LAMBDA i : output[i] = "<<" /\ i < Len(output))
    IN  [k \in 1..Len(at) |-> output[at[k] + 1]]

C13_Recognized ==
    {"{{fileName}}", "{{relativePath}}", "{{repoPath}}", "{{absolutePath}}",
     "{{content}}", "{{language}}"}
C13_Field(result, token) ==
    CASE token = "{{fileName}}" -> <<result.fileName>>
      [] token = "{{relativePath}}" -> pathString(result.relativePath)
      [] token = "{{repoPath}}" -> pathString(result.repoPath)
      [] token = "{{absolutePath}}" -> absoluteString(result.absolutePath)
      [] token = "{{content}}" -> result.content
      [] token = "{{language}}" -> <<result.language>>

\* The template with every recognized token replaced by its field and every
\* other atom left as written.
C13_Substituted(result, template) ==
    Flatten([i \in 1..Len(template) |->
                IF template[i] \in C13_Recognized
                THEN C13_Field(result, template[i])
                ELSE <<template[i]>>])

\* C13: formatContent replaces every occurrence of {{fileName}},
\* {{relativePath}}, {{repoPath}}, {{absolutePath}}, {{content}} and
\* {{language}} by the field of the file record and leaves every other text
\* of the template, unknown tokens included, as written.
C13_TokensReplacedVerbatim ==
    pc = "done" =>
        output = Flatten([i \in 1..Len(processedFiles) |->
                             C13_Substituted(processedFiles[i], fileTemplate)])

\* The same for the records whose fields hold no dollar sequence and no
\* text of a token, and the templates without the token {{path}}.
C13_PlainFieldsReplaced ==
    (/\ pc = "done"
     /\ "{{path}}" \notin Range(fileTemplate)
     /\ \A f \in Range(processedFiles) :
           /\ Range(f.content) \cap {"$$", "$&", "$'"} = {}
           /\ Range(f.absolutePath) \cap C13_Recognized = {})
        => output = Flatten([i \in 1..Len(processedFiles) |->
                                C13_Substituted(processedFiles[i], fileTemplate)])

\* C13, the failing input: the template is the token {{content}} followed by
\* literal text, the file holds dollar sequences, and the output is composed.
C13_Witness ==
    /\ pc = "done"
    /\ fileTemplate = <<"{{content}}", "text ">>
    /\ Len(processedFiles) = 1
    /\ "$&" \in Range(processedFiles[1].content)
    /\ output = <<"<<", "k.ts", ">>", "$", "{{content}}", "text ", "text ">>

(***************************************************************************)
(* C14                                                                     *)
(***************************************************************************)
\* The ancestor directories of file P that hold the repository marker, as
\* the lengths of their paths (0 is the filesystem root), from length `low`.
C14_Holders(P, low) ==
    {k \in low..(Len(P) - 1) : existsSync(pathJoin(SubSeq(P, 1, k), <<".git">>))}
C14_Nearest(S) == CHOOSE k \in S : \A j \in S : j <= k

\* The repository-relative path of P: the name of the nearest ancestor that
\* holds the marker joined with the path from it to P (the filesystem root
\* has the empty name), or the selection-relative path when there is none.
C14_RepoPath(P, basePath, low) ==
    LET holders == C14_Holders(P, low)
        n == C14_Nearest(holders)
    IN  IF holders = {} THEN pathRelative(basePath, P)
        ELSE IF n = 0 THEN P
        ELSE SubSeq(P, n, Len(P))

\* The tree block for the paths once each is projected by structureFormat.
C14_Projection(P, basePath, low) ==
    CASE structureFormat = "repo" -> pathString(C14_RepoPath(P, basePath, low))
      [] structureFormat = "absolute" -> absoluteString(P)
      [] structureFormat = "relative" -> pathString(pathRelative(basePath, P))
C14_TreeBlock(paths, basePath, low) ==
    LET t == buildFileTree([i \in 1..Len(paths) |-> C14_Projection(paths[i], basePath, low)])
        header == IF nodeName(t, t.root) # "root" /\ nodePath(t, t.root) # <<>>
                  THEN <<nodeName(t, t.root), "/", "\n">> ELSE <<>>
    IN  <<DEFAULT_TREE_TEMPLATE[1]>>
            \o trim(header \o generateTreeString(t, t.root, <<>>, TRUE))
            \o <<DEFAULT_TREE_TEMPLATE[3]>>

\* The base of the selection-relative path of a file record: the working
\* directory in the CLI; in the editor the workspace folder of the file, or
\* the common base path for a file outside the workspace.
C14_RecordBase(P) ==
    IF host = "cli" THEN cwd
    ELSE IF workspaceRootOf(P) # <<>> THEN workspaceRootOf(P)
    ELSE commonBasePathOf(uris)

C14_Discovery(low) ==
    /\ \A f \in Range(processedFiles) :
          /\ f.relativePath = pathRelative(C14_RecordBase(f.absolutePath), f.absolutePath)
          /\ f.repoPath = C14_RepoPath(f.absolutePath, C14_RecordBase(f.absolutePath), low)
    /\ (pc = "done" /\ needTree /\ C12_Paths # <<>>) =>
          SubSeq(output, 1, Len(C14_TreeBlock(C12_Paths, C12_Base, low)))
              = C14_TreeBlock(C12_Paths, C12_Base, low)

\* C14 as stated: the nearest ancestor directory holding the repository
\* marker, the filesystem root included, gives the repository-relative path.
C14_AsStated == C14_Discovery(0)

\* C14: for every file, the repository-relative path is the name of the
\* nearest ancestor directory below the filesystem root that holds the
\* repository marker, joined with the path from it to the file, or the
\* selection-relative path when no such ancestor holds one (a marker in the
\* filesystem root itself is not looked at); the tree is built from the
\* projection of the paths that structureFormat names.
C14_RepoPathDiscovery == C14_Discovery(1)

\* C14, its case: a file in a repository nested in another one and a file
\* in no repository below the root, which holds a marker, were collected
\* and composed with their repository-relative paths.
C14_Witness ==
    /\ pc = "done"
    /\ mode = "full"
    /\ structureFormat = "repo"
    /\ rootMarker
    /\ \E f \in Range(processedFiles) :
          /\ f.absolutePath = <<"out", "rep", "in", "k.ts">>
          /\ f.repoPath = <<"in", "k.ts">>
    /\ \E f \in Range(processedFiles) :
          /\ f.absolutePath = <<"out", "o.txt">>
          /\ f.repoPath = f.relativePath

(***************************************************************************)
(* C15                                                                     *)
(***************************************************************************)
\* C15: a root that does not exist is skipped without ending the run, in
\* the CLI and in the editor command: its iteration does not raise, the
\* loop goes on to the roots after it, and the files of the roots before it
\* are kept.
C15_MissingRootSkipped ==
    \A i \in 1..Len(trail) :
        ~existsSync(trail[i].root) =>
            /\ trail[i].outcome # "crash"
            /\ pc # "crashed"

\* The same for the CLI alone.
C15_MissingRootSkippedByRun == host = "cli" => C15_MissingRootSkipped

\* C15, the failing input: the editor command was given an existing file and
\* then a path that does not exist; it ended in the exception of statSync
\* and composed no output, although a file had been collected.
C15_Witness ==
    /\ host = "ext"
    /\ uris = << <<"ws", "src", "x.ts">>, <<"ws", "nope">> >>
    /\ trail[2].outcome = "crash"
    /\ pc = "crashed"
    /\ Len(processedFiles) = 1
    /\ output = <<>>

(***************************************************************************)
(* C16                                                                     *)
(***************************************************************************)
C16_InvalidMode ==
    modeArg # "" /\ toLowerCase(modeArg) \notin {"content", "tree", "full"}
C16_InvalidStructure == structureFormat \notin {"repo", "relative", "absolute"}

\* C16: with an unrecognized mode value or an unrecognized structureFormat
\* value the invocation ends before any filesystem access: no root is
\* stat'ed, listed or read, and no output is composed.
C16_InvalidConfigurationFatal ==
    (C16_InvalidMode \/ C16_InvalidStructure) =>
        /\ trail = <<>>
        /\ processedFiles = <<>>
        /\ processedPaths = <<>>
        /\ mimeCache = <<>>
        /\ pc # "done"
        /\ output = <<>>

\* C16, the failing input: the CLI was given --mode bogus and --structure
\* bogus, walked the root, read its file and composed an output in the mode
\* content.
C16_Witness ==
    /\ host = "cli"
    /\ modeArg = "bogus"
    /\ structureFormat = "bogus"
    /\ mode = "content"
    /\ uris = <<PROJ>>
    /\ trail[1].outcome = "walked"
    /\ pc = "done"
    /\ hasContentOf(<<"ws", "proj", "a.py">>)

(***************************************************************************)
(* C17                                                                     *)
(***************************************************************************)
\* The paths from the walked root down to P: the root and everything below
\* it on the way, P included.
C17_OnTheWay(root, P) == {SubSeq(P, 1, k) : k \in Len(root)..Len(P)}

\* The files a walk of root returns when only the failing directory or entry
\* is left out: every regular file below the root that the built-in rules
\* of the engine do not match, and that lies neither in a directory that
\* cannot be listed nor at or below an entry that cannot be stat'ed.
C17_Expected(root) ==
    {P \in FilesUnder(root) :
        /\ useGitIgnore => \A k \in 1..Len(P) : P[k] \notin {".git", ".DS_Store"}
        /\ C17_OnTheWay(root, P) \cap unlistable = {}
        /\ (C17_OnTheWay(root, P) \ {root}) \cap faulty = {}}

\* C17: a walk raises no error, and a directory that cannot be listed or an
\* entry that cannot be stat'ed takes only itself out of the result: all its
\* siblings, before and after it, and their subtrees are returned.
C17_WalkFailureLocal ==
    /\ \A i \in 1..Len(trail) :
          (isDirectory(trail[i].root) /\ trail[i].root \notin faulty)
              => trail[i].outcome = "walked"
    /\ \A e \in Walked : Range(e.files) = C17_Expected(e.root)

\* The same when no entry fails to be stat'ed.
C17_UnlistableDirectoryLocal == faulty = {} => C17_WalkFailureLocal

\* C17, the failing input: /ws/proj was walked while a.py could not be
\* stat'ed; the walk returned nothing, although b/c.png, enumerated after
\* a.py, can be read.
C17_Witness ==
    /\ faulty = {<<"ws", "proj", "a.py">>}
    /\ unlistable = {}
    /\ ~useGitIgnore
    /\ uris = <<PROJ>>
    /\ trail[1].outcome = "walked"
    /\ trail[1].files = <<>>
    /\ C_PNG \in C17_Expected(PROJ)

(***************************************************************************)
(* C18                                                                     *)
(***************************************************************************)
C18_Keys(cache) == {cache[i].key : i \in 1..Len(cache)}

\* What a call of the detector may do to the cache: nothing, or insert one
\* entry for a path that had none; an insertion that takes the cache above
\* 1000 entries removes the 200 entries inserted earliest and keeps the
\* others, the new one included, in their order.
C18_Step ==
    mimeCache' # mimeCache =>
        LET inserted == Last(mimeCache')
            grown == Append(mimeCache, inserted)
        IN  /\ inserted.key \notin C18_Keys(mimeCache)
            /\ IF Len(grown) > 1000
               THEN mimeCache' = SubSeq(grown, 201, Len(grown))
               ELSE mimeCache' = grown

\* C18: whenever a call of the detector has returned, the cache holds at
\* most 1000 entries, one per path; an insertion that takes it above 1000
\* removes exactly the 200 entries inserted earliest and keeps the entry
\* just inserted.
C18_CacheBounded ==
    /\ [](/\ Len(mimeCache) <= 1000
          /\ Cardinality(C18_Keys(mimeCache)) = Len(mimeCache))
    /\ [][C18_Step]_vars

\* C18, its case: the 1001st insertion has evicted the first 200 entries,
\* and the entry of the 1001st file is the last of the 801 that are left.
C18_Witness ==
    /\ Len(mimeCache) = 801
    /\ mimeCache[1].key = probedFile(201)
    /\ mimeCache[801].key = probedFile(1001)

(***************************************************************************)
(* C19                                                                     *)
(***************************************************************************)
\* Whether file P gives a file record for a session whose cache is its own,
\* and so empty before its first probe.
C19_OwnDecision(P) == processFile(<<>>, P, C14_RecordBase(P)).ok

\* C19: an invocation starts without cache entries of an earlier one, and
\* what it decides for a file is what it decides with a cache of its own: no
\* probe of an earlier invocation determines it.
C19_CacheOwnedBySession ==
    /\ (pc = "loop" /\ uris = <<>>) => mimeCache = <<>>
    /\ \A P \in Candidates :
          P \in Range(absolutePaths(processedFiles)) <=> C19_OwnDecision(P)

\* C19, the failing input: the first invocation classified b/c.png as
\* binary; the file was rewritten as text; the second invocation, given the
\* file, dropped it on the cached answer, which a cache of its own would not
\* have held.
C19_Witness ==
    /\ invocation = 2
    /\ rewritten = {C_PNG}
    /\ uris = <<C_PNG>>
    /\ trail[1].outcome = "file"
    /\ [key |-> C_PNG, value |-> TRUE] \in Range(mimeCache)
    /\ ~containsBinaryContent(fileBytes(C_PNG))
    /\ C19_OwnDecision(C_PNG)
    /\ processedFiles = <<>>

(***************************************************************************)
(* C20                                                                     *)
(***************************************************************************)
\* The root whose engine an iteration on root item consults, or <<>>.
C20_RootOf(item) ==
    IF ~useGitIgnore THEN <<>>
    ELSE IF host = "cli" THEN cwd
    ELSE workspaceRootOf(item)

\* C20: within one invocation loadGitIgnore runs at most once per root,
\* however many items under the root are processed: the map holds one
\* engine per root that was loaded, and every item that was walked, taken or
\* ignored has the engine of its root in the map.
C20_IgnoreFileParsedOncePerRoot ==
    /\ \A i, j \in 1..Len(loads) : loads[i] = loads[j] => i = j
    /\ [i \in 1..Len(ignoreHelpers) |-> ignoreHelpers[i].root] = loads
    /\ \A e \in Entries :
          (e.outcome \in {"walked", "file", "ignored"} /\ C20_RootOf(e.root) # <<>>)
              => /\ helperHas(ignoreHelpers, C20_RootOf(e.root))
                 /\ helperGet(ignoreHelpers, C20_RootOf(e.root))
                        = GitIgnoreHelper(C20_RootOf(e.root))

\* C20, its case: the editor command processed two items of one workspace
\* folder, a directory it walked and a file the ignore file names, and
\* loaded the ignore file of the folder once.
C20_Witness ==
    /\ host = "ext"
    /\ hasIgnoreFile
    /\ useGitIgnore
    /\ uris = <<PROJ, <<"ws", ".env">> >>
    /\ trail[1].outcome = "walked"
    /\ trail[2].outcome = "ignored"
    /\ loads = <<WS>>

\* The same with two folders: one load for each.
C20_WitnessTwoFolders ==
    /\ host = "ext"
    /\ useGitIgnore
    /\ secondFolder = <<"out">>
    /\ uris = <<PROJ, <<"out">> >>
    /\ loads = <<WS, <<"out">> >>

(***************************************************************************)
(* C21.  The token is read at the start of the iteration of each selected  *)
(* root and nowhere else.                                                  *)
(***************************************************************************)
\* The files of the model that processFile turns into a record.
C21_Textual ==
    {<<"ws", "proj", "a.py">>, <<"ws", "src", "x.ts">>, <<"ws", "src", "y.ts">>}

\* The root an iteration has just handled was handled in full: every file
\* of it was taken by addFile, whatever the request did meanwhile.
C21_RootCompleted ==
    \A P \in Range(Last(trail').files) :
        /\ P \in processedAbsPaths'
        /\ ~needContent => P \in Range(processedPaths')
        /\ (needContent /\ P \in C21_Textual) => P \in Range(absolutePaths(processedFiles'))

C21_Step ==
    /\ isCancellationRequested(processedAbsPaths) =>
          /\ uris' = uris
          /\ trail' = trail
          /\ processedFiles' = processedFiles
          /\ processedPaths' = processedPaths
          /\ processedAbsPaths' = processedAbsPaths
    /\ uris' # uris => C21_RootCompleted

\* C21: a cancellation request is honoured only at the check that opens the
\* iteration of a selected root.  A root whose iteration has begun is
\* handled in full even when the request arrives in the middle of it, and
\* once the request stands at a check no further root is started and
\* nothing more is added to the files or the paths.
C21_CancellationBetweenRoots == [][C21_Step]_vars

\* Cancel was pressed after the first of the two files of a walked root:
\* both files were taken, and the command ended with roots left unstarted.
C21_Witness ==
    /\ cancelAfter = <<1>>
    /\ pc = "done"
    /\ Len(uris) = 1
    /\ trail[1].outcome = "walked"
    /\ Cardinality(processedAbsPaths) = 2
    /\ budget > 0

(***************************************************************************)
(* C22.  Paths that leave the root the rules are matched against           *)
(***************************************************************************)
\* The root against which the iteration of the i-th root matches paths.
C22_MatchingRoot(i) ==
    IF host = "cli" THEN cwd
    ELSE IF workspaceRootOf(trail[i].root) # <<>> THEN workspaceRootOf(trail[i].root)
    ELSE commonBasePathOf(uris)

C22_Escapes(root, P) ==
    LET rel == pathRelative(root, P) IN rel # <<>> /\ Head(rel) = ".."

\* C22: a path whose form relative to the matching root begins with `..` is
\* outside the ignore-file and exclude layers: its evaluation raises no
\* error and it is kept, so the walk of a selected directory outside the
\* root returns the files of that directory.
C22_EscapingPathsKept ==
    \A i \in 1..Len(trail) :
        (isDirectory(trail[i].root) /\ C22_Escapes(C22_MatchingRoot(i), trail[i].root)) =>
            /\ trail[i].outcome = "walked"
            /\ Range(trail[i].files) = FilesUnder(trail[i].root)

\* The layer of the ignore file on its own does leave such paths alone.
C22_EngineLeavesEscapingPaths ==
    \A i \in 1..Len(ignoreHelpers) :
        \A P \in AllFiles :
            C22_Escapes(ignoreHelpers[i].root, P) =>
                ~shouldIgnore(ignoreHelpers[i].helper, P)

\* The command line in /ws was given the directory /out: its walk ended
\* without an error and without a file.
C22_Witness ==
    /\ host = "cli"
    /\ cwd = WS
    /\ Len(trail) >= 1
    /\ trail[1].root = <<"out">>
    /\ trail[1].outcome = "walked"
    /\ trail[1].files = <<>>
    /\ FilesUnder(<<"out">>) # {}
    /\ pc = "done"

(***************************************************************************)
(* C23.  Which node buildFileTree returns                                  *)
(***************************************************************************)
\* The distinct first segments of the inputs.
C23_Firsts ==
    {Head(splitParts(pathStrings[i])) :
        i \in {k \in 1..Len(pathStrings) : splitParts(pathStrings[k]) # <<>>}}

C23_TopLevel == childrenOf(tree.nodes, 0)

\* C23: buildFileTree returns the only top-level node exactly when the
\* virtual root ends with one child; with several distinct first segments
\* it returns the virtual root, named ".", with every top-level node as a
\* child, and the rendering opens with the line of that root.
C23_RootCollapsing ==
    pc \in {"built", "rendered"} =>
        /\ tree.root # 0 <=> Len(C23_TopLevel) = 1
        /\ Len(C23_TopLevel) = Cardinality(C23_Firsts)
        /\ Cardinality(C23_Firsts) = 1 =>
              /\ tree.root = C23_TopLevel[1]
              /\ nodeName(tree, tree.root) \in C23_Firsts
              /\ pc = "rendered" =>
                    SubSeq(treeString, 1, 3) =
                        <<LAST_CONNECTOR, nodeName(tree, tree.root), "\n">>
        /\ Cardinality(C23_Firsts) > 1 =>
              /\ tree.root = 0
              /\ nodeName(tree, tree.root) = "."
              /\ {tree.nodes[n].name : n \in Range(childrenOf(tree.nodes, tree.root))}
                    = C23_Firsts
              /\ pc = "rendered" => SubSeq(treeString, 1, 3) = <<".", "/", "\n">>

\* A rendered tree of inputs with three distinct first segments.
C23_Witness ==
    /\ pc = "rendered"
    /\ Cardinality(C23_Firsts) = 3
    /\ tree.root = 0

\* A rendered tree of three inputs below one first segment.
C23_WitnessCollapsed ==
    /\ pc = "rendered"
    /\ Cardinality(C23_Firsts) = 1
    /\ Cardinality(Range(pathStrings)) = 3
    /\ tree.root # 0

(***************************************************************************)
(* C24.  The order of the siblings in the rendering                        *)
(***************************************************************************)
\* The names of the model in case-sensitive lexicographic order, that is
\* by code units: punctuation, then capitals, then small letters.
C24_CodeUnitOrder ==
    <<".", "..", ".DS_Store", ".env", ".git", ".gitignore", "HEAD", "README",
      "a.py", "b", "big.ts", "c.png", "in", "k.ts", "lib", "lim.ts", "m.js",
      "node_modules", "o.txt", "out", "proj", "rep", "src", "t.ts", "tpl", "ws",
      "x.ts", "y.ts", "{{content}}">>
C24_CodeUnitRank(name) ==
    CHOOSE i \in 1..Len(C24_CodeUnitOrder) : C24_CodeUnitOrder[i] = name

C24_Lines == linesOf(treeString)

\* The line of the parent of the node drawn on line k, or 0.
C24_ParentLine(k) ==
    LET above == {j \in 1..(k - 1) : depthOf(C24_Lines[j]) < depthOf(C24_Lines[k])}
    IN  IF above = {} THEN 0 ELSE CHOOSE j \in above : \A i \in above : i <= j

\* The node drawn on line k has a child drawn below it.
C24_IsDirectoryLine(k) ==
    k < Len(C24_Lines) /\ depthOf(C24_Lines[k + 1]) > depthOf(C24_Lines[k])

C24_Siblings ==
    {kl \in (1..Len(C24_Lines)) \X (1..Len(C24_Lines)) :
        /\ kl[1] < kl[2]
        /\ ~isHeaderLine(C24_Lines[kl[1]])
        /\ ~isHeaderLine(C24_Lines[kl[2]])
        /\ depthOf(C24_Lines[kl[1]]) = depthOf(C24_Lines[kl[2]])
        /\ C24_ParentLine(kl[1]) = C24_ParentLine(kl[2])}

\* The order of the siblings under a ranking of the names.
C24_Ordered(rank(_)) ==
    \A kl \in C24_Siblings :
        /\ C24_IsDirectoryLine(kl[2]) => C24_IsDirectoryLine(kl[1])
        /\ (C24_IsDirectoryLine(kl[1]) <=> C24_IsDirectoryLine(kl[2])) =>
              rank(nameOf(C24_Lines[kl[1]])) < rank(nameOf(C24_Lines[kl[2]]))

\* C24: in the rendering, at every level, the siblings that have a child
\* come before those that have none, and within each group the names are
\* in case-sensitive lexicographic order.
C24_SiblingsCaseSensitiveOrder ==
    pc = "rendered" => C24_Ordered(C24_CodeUnitRank)

\* What the renderer does keep: directories first, and within each group
\* the order of localeCompare.
C24_SiblingsLocaleOrder ==
    pc = "rendered" => C24_Ordered(collationRank)

\* a.py is drawn above README, which precedes it by code units.
C24_Witness ==
    /\ pc = "rendered"
    /\ pathStrings = << <<"README">>, <<"a.py">> >>
    /\ treeString = <<".", "/", "\n",
                      "    ", MID_CONNECTOR, "a.py", "\n",
                      "    ", LAST_CONNECTOR, "README", "\n">>
    /\ C24_CodeUnitRank("README") < C24_CodeUnitRank("a.py")

(***************************************************************************)
(* C25.  The nodes of the tree and the prefixes of the inputs              *)
(***************************************************************************)
\* The names from the virtual root down to node n, by the parent links.
RECURSIVE C25_NamesTo(_)
C25_NamesTo(n) ==
    IF n = 0 THEN <<>> ELSE Append(C25_NamesTo(tree.nodes[n].parent), tree.nodes[n].name)

\* The non-empty prefixes of the segments of the inputs.
C25_Prefixes ==
    UNION {{SubSeq(splitParts(pathStrings[i]), 1, k) :
               k \in 1..Len(splitParts(pathStrings[i]))} : i \in 1..Len(pathStrings)}

\* C25: after buildFileTree no node has two children of one name, and the
\* name sequences from the root to the nodes are the non-empty segment
\* prefixes of the inputs, each borne by exactly one node.
C25_PrefixesMerged ==
    pc \in {"built", "rendered"} =>
        /\ \A i, j \in 1..Len(tree.nodes) :
              (i # j /\ tree.nodes[i].parent = tree.nodes[j].parent) =>
                  tree.nodes[i].name # tree.nodes[j].name
        /\ {C25_NamesTo(n) : n \in 1..Len(tree.nodes)} = C25_Prefixes
        /\ Len(tree.nodes) = Cardinality(C25_Prefixes)

\* Three inputs below src, written with either separator, one of them
\* twice: three nodes.
C25_Witness ==
    /\ pc = "built"
    /\ pathStrings = << <<"src", "/", "x.ts">>, <<"src", "/", "y.ts">>,
                        <<"src", "\\", "x.ts">> >>
    /\ Len(tree.nodes) = 3

(***************************************************************************)
(* C26.  The marking of the directories                                    *)
(***************************************************************************)
\* C26: in the tree buildFileTree returns, a node is marked a directory if
\* and only if it has a child, in whatever order the inputs were given and
\* also when one input is a proper prefix of another.
C26_DirectoryIffChildren ==
    pc \in {"built", "rendered"} =>
        \A n \in 1..Len(tree.nodes) : nodeIsDirectory(tree, n) <=> hasChildren(tree, n)

\* One direction does hold: a node marked a directory has a child.
C26_DirectoriesHaveChildren ==
    pc \in {"built", "rendered"} =>
        \A n \in 1..Len(tree.nodes) : nodeIsDirectory(tree, n) => hasChildren(tree, n)

\* src was given before src/x.ts: it has the child x.ts and is marked a
\* file.
C26_Witness ==
    /\ pc = "built"
    /\ pathStrings = << <<"src">>, <<"src", "/", "x.ts">> >>
    /\ \E n \in 1..Len(tree.nodes) :
          /\ tree.nodes[n].name = "src"
          /\ hasChildren(tree, n)
          /\ ~nodeIsDirectory(tree, n)

(***************************************************************************)
(* C27.  The root the patterns are matched against during a walk           *)
(***************************************************************************)
\* The engine the drivers hand to the walk of root when the ignore file is
\* respected, and the walk of root with it and without any.
C27_Engine(root) ==
    IF host = "cli" THEN GitIgnoreHelper(cwd) ELSE GitIgnoreHelper(workspaceRootOf(root))
C27_WithEngine(root) ==
    getAllFilesRecursively(root, C27_Engine(root), excludes, includes).files
C27_WithoutEngine(root) ==
    getAllFilesRecursively(root, NoHelper, excludes, includes).files

\* No entry on the way from root to P is one the engine itself ignores.
C27_Unignored(root, P) ==
    \A k \in (Len(root) + 1)..Len(P) : ~shouldIgnore(C27_Engine(root), SubSeq(P, 1, k))

\* C27: the exclude and forced-include patterns keep or skip an entry of a
\* walk identically whether an engine of the ignore file is supplied or
\* not: every file the engine does not ignore is in the result of the one
\* walk if and only if it is in the result of the other.
C27_PatternsIndependentOfEngine ==
    \A e \in Walked :
        /\ e.files = IF useGitIgnore THEN C27_WithEngine(e.root)
                      ELSE C27_WithoutEngine(e.root)
        /\ \A P \in FilesUnder(e.root) :
              C27_Unignored(e.root, P) =>
                  (P \in Range(C27_WithEngine(e.root)) <=> P \in Range(C27_WithoutEngine(e.root)))

\* The command line in /ws/proj with the exclude pattern b/c.png walks
\* /ws/proj: with the engine b/c.png is skipped; the same walk without the
\* engine keeps it.
C27_Witness ==
    /\ host = "cli"
    /\ cwd = PROJ
    /\ useGitIgnore
    /\ excludes = {PPath(<<"b", "c.png">>)}
    /\ includes = {}
    /\ \E e \in Walked :
          /\ e.root = PROJ
          /\ C_PNG \notin Range(e.files)
          /\ [path |-> C_PNG, reason |-> "exclude_pattern"] \in Range(e.skipped)
          /\ C_PNG \in Range(C27_WithoutEngine(PROJ))

(***************************************************************************)
(* C28.  Overlapping roots                                                 *)
(***************************************************************************)
C28_Occurrences(s, x) == Len(SelectSeq(s, LAMBDA y : y = x))

\* What the drivers hand to the tree builder.
C28_PathsForTree ==
    IF needContent THEN absolutePaths(processedFiles) ELSE processedPaths

\* C28: within one invocation, whatever the selected roots (a directory
\* together with a file inside it, the same root twice), an absolute file
\* path gives at most one record, hence one file block, and at most one
\* path of the tree input.
C28_EachFileOnce ==
    \A P \in AllFiles :
        /\ C28_Occurrences(absolutePaths(processedFiles), P) <= 1
        /\ C28_Occurrences(processedPaths, P) <= 1
        /\ C28_Occurrences(C28_PathsForTree, P) <= 1

\* /ws was walked and /ws/src/x.ts, a file inside it, was selected after
\* it: x.ts is in the tree input once.
C28_Witness ==
    /\ Len(trail) = 2
    /\ trail[1].root = WS
    /\ trail[1].outcome = "walked"
    /\ trail[2].root = <<"ws", "src", "x.ts">>
    /\ trail[2].outcome = "file"
    /\ <<"ws", "src", "x.ts">> \in Range(trail[1].files)
    /\ C28_Occurrences(C28_PathsForTree, <<"ws", "src", "x.ts">>) = 1

\* The same directory was selected twice, in tree-only mode.
C28_WitnessSameRootTwice ==
    /\ mode = "tree"
    /\ Len(trail) = 2
    /\ trail[1].root = PROJ
    /\ trail[2].root = PROJ
    /\ trail[2].outcome = "walked"
    /\ C28_Occurrences(processedPaths, A_PY) = 1

(***************************************************************************)
(* C29.  The paths of the tree block in the modes full and tree            *)
(***************************************************************************)
\* The text of the tree in the output: what stands between the two fixed
\* parts of the tree template.
C29_TreeText ==
    IF output = <<>> \/ output[1] # DEFAULT_TREE_TEMPLATE[1] THEN <<>>
    ELSE LET end == CHOOSE c \in 2..Len(output) :
                        /\ output[c] = DEFAULT_TREE_TEMPLATE[3]
                        /\ \A i \in 2..(c - 1) : output[i] # DEFAULT_TREE_TEMPLATE[3]
         IN  SubSeq(output, 2, end - 1)

\* The leaves drawn in the output, and file P as the tree would draw it,
\* both as segments.
C29_TreeLeaves == {splitParts(l) : l \in Range(leafPathsOf(C29_TreeText))}
C29_Graphed(P) == splitParts(pathToGraph(P, C12_Base, structureFormat))

\* The files of the model that the classification rejects: over the size
\* limit, binary, unreadable.
C29_Rejected(P) ==
    \/ fileSize(P) > MAX_FILE_SIZE
    \/ P = C_PNG
    \/ P \in unreadable

\* C29: in the mode full the tree shows exactly the files that have a
\* content block, so that a file rejected by the classification is neither
\* in the tree nor a block; in the mode tree every path that was walked or
\* selected is in the tree, unclassified.
C29_TreeInputByMode ==
    pc = "done" =>
        /\ mode = "full" =>
              /\ C29_TreeLeaves = {C29_Graphed(P) : P \in {Q \in Candidates : hasContentOf(Q)}}
              /\ \A P \in Candidates :
                    C29_Rejected(P) => ~hasContentOf(P) /\ C29_Graphed(P) \notin C29_TreeLeaves
        /\ mode = "tree" =>
              /\ C29_TreeLeaves = {C29_Graphed(P) : P \in Candidates}
              /\ output # <<>> => Last(output) = DEFAULT_TREE_TEMPLATE[3]

\* The mode full on /ws/proj and /out/big.ts: the binary file and the file
\* over the limit were met, and the tree and the blocks hold a.py alone.
C29_Witness ==
    /\ pc = "done"
    /\ mode = "full"
    /\ Candidates = {A_PY, C_PNG, <<"out", "big.ts">>}
    /\ hasContentOf(A_PY)
    /\ C29_TreeLeaves = {C29_Graphed(A_PY)}

\* The mode full on /ws/src, where x.ts cannot be read.
C29_WitnessUnreadable ==
    /\ pc = "done"
    /\ mode = "full"
    /\ unreadable = {<<"ws", "src", "x.ts">>}
    /\ <<"ws", "src", "x.ts">> \in Candidates
    /\ C29_TreeLeaves = {C29_Graphed(<<"ws", "src", "y.ts">>)}

\* The mode tree on the same roots as the first case: the three files are
\* in the tree.
C29_WitnessTreeOnly ==
    /\ pc = "done"
    /\ mode = "tree"
    /\ Candidates = {A_PY, C_PNG, <<"out", "big.ts">>}
    /\ Cardinality(C29_TreeLeaves) = 3

(***************************************************************************)
(* C30.  Substituted values are not read again                             *)
(***************************************************************************)
\* The tokens formatContent replaces, and the field each stands for.
C30_Tokens == C13_Recognized \cup {"{{path}}"}
C30_Field(result, token) ==
    IF token = "{{path}}" THEN pathString(result.relativePath)
    ELSE C13_Field(result, token)

\* One pass over the template: every token gives way to its field, as the
\* field is.
C30_SinglePass(result, template) ==
    Flatten([i \in 1..Len(template) |->
                IF template[i] \in C30_Tokens THEN C30_Field(result, template[i])
                ELSE <<template[i]>>])

\* The texts formatContent substitutes for the tokens of the template.
C30_Values(result, template) ==
    UNION {Range(C30_Field(result, tok)) : tok \in Range(template) \cap C30_Tokens}

\* C30: the substitution of the file template is a single pass that
\* inserts every field as it is: the dollar sequences of a content and the
\* token-like text of a file name or path are in the output unchanged,
\* expanded by no later substitution.
C30_ValuesInsertedVerbatim ==
    pc = "done" =>
        output = Flatten([i \in 1..Len(processedFiles) |->
                             C30_SinglePass(processedFiles[i], fileTemplate)])

\* The same for the records none of whose substituted values holds a
\* dollar sequence or the text of a token.
C30_PlainValuesInsertedVerbatim ==
    (/\ pc = "done"
     /\ \A f \in Range(processedFiles) :
           C30_Values(f, fileTemplate) \cap ({"$$", "$&", "$'"} \cup C30_Tokens) = {})
        => output = Flatten([i \in 1..Len(processedFiles) |->
                                C30_SinglePass(processedFiles[i], fileTemplate)])

\* The template is the token {{relativePath}} alone and the file lies in a
\* directory named {{content}}: the output holds the content of the file
\* where the name of the directory should stand.
C30_Witness ==
    /\ pc = "done"
    /\ fileTemplate = <<"{{relativePath}}">>
    /\ Len(processedFiles) = 1
    /\ processedFiles[1].absolutePath = <<"tpl", "{{content}}", "t.ts">>
    /\ "{{content}}" \in Range(pathString(processedFiles[1].relativePath))
    /\ "{{content}}" \notin Range(output)
    /\ "<<" \in Range(output)

====
